---------------------------- MODULE Spec2Model ----------------------------
(***************************************************************************)
(* comando: the device registry (Controller), the @device lifecycle        *)
(* wrappers and the @sensor cache / poller / change-event engine of        *)
(* src/src/comando/controller/core.py, and the Telnet connection of        *)
(* src/src/comando/helpers/telnet.py, as a state machine.                  *)
(*                                                                         *)
(* The program runs on one asyncio event loop: a step of the model is the  *)
(* code one task runs between two suspension points (an await that really  *)
(* suspends: the driver's I/O, a sleep, a subscriber callback).            *)
(***************************************************************************)
EXTENDS Integers, Sequences, FiniteSets, TLC

VARIABLES
    cfg,        \* the decorator arguments: @device(ttl, timeout), @sensor(ttl, timeout)
    now,        \* time.monotonic(), in ticks of 0.1 s
    cache,      \* the sensor's closure dict: instance_key -> () or (value, time)
    rd,         \* the caller tasks and the polling tasks: where each one is
    evq,        \* tasks made by asyncio.create_task(obj.raise_event(..)), not yet run
    out,        \* what the last step did (its operation, result, driver call, event)
    hist,       \* per instance_key: what happened since the last write / read
    scen,       \* progress along the scenario of the specification
    event_subscribers,  \* Controller.event_subscribers: key -> set of callbacks
    disp,       \* the handle_event calls in progress
    devices,    \* Controller.devices
    ctl,        \* Controller.start() / stop(): where the call is
    call,       \* per device: the connect() / disconnect() call in progress
    polling_tasks,  \* per device: the tasks held in self._polling_tasks
    life,       \* per device: new, or the last of connect / disconnect that returned
    connection, \* Telnet._state of a Vertex2 device: its socket and its lock
    commands,   \* the send_command calls: where each one is, and which one runs
    order       \* the handle_event calls in progress, the oldest first, where followed

(* no step of the controller, of a device's lifecycle or of a sensor        *)
(* touches the Telnet connection: its variables go with the configuration   *)
telnetVars == <<connection, commands>>
sensorVars == <<cfg, now, cache, rd, hist, scen, telnetVars>>
busVars == <<event_subscribers, disp, order>>
lifeVars == <<devices, ctl, call, polling_tasks, life>>
vars == <<cfg, now, cache, rd, evq, out, hist, scen, event_subscribers, disp,
          devices, ctl, call, polling_tasks, life, connection, commands, order>>

-----------------------------------------------------------------------------
(* Bounds of the model *)

MaxTime == 4
MaxEvq == 1

(* Python's None, for a ttl, a timeout or a time that is not there *)
None == -1

MaxPollers == 2
MaxDisp == 2
MaxDirect == 1
MaxCommanders == 3

Values == {10, 20}

(* Tasks: the callers of a sensor read, the polling tasks, the tasks that  *)
(* run raise_event / handle_event.                                         *)
NoTask == <<>>
Tasks == {<<"caller", 1>>, <<"caller", 2>>}
Pollers == {<<"poller", i>> : i \in 1..MaxPollers}
Dispatchers == {<<"dispatch", i>> : i \in 1..MaxDisp}

Max(a, b) == IF a >= b THEN a ELSE b

-----------------------------------------------------------------------------
(* Device objects.  d1 is the device of the scenario of the specification, *)
(* an instance of a plain @device class.  amp_a, amp_b, amp_c are          *)
(* instances of one @device @dataclass class with a polled sensor (as      *)
(* MiniDSP): all three have the identifier "amp1", amp_a and amp_c have    *)
(* equal fields, amp_b another host.  tv is a device whose listener        *)
(* publishes events (as AppleTV), bad has an identifier with a character   *)
(* that is not allowed, misc is an object that is no device.  zone, und,   *)
(* uni and nul are devices whose identifiers are "z_1", two underscores,   *)
(* "caf" followed by the letter e with an acute accent (U+00E9), and the   *)
(* empty string.  No device class of the repository has an attribute       *)
(* `name`; bad is an instance of a class that has one.                     *)

Amps == {"amp_a", "amp_b", "amp_c"}
DeviceObjects == {"d1", "tv", "bad", "zone", "und", "uni", "nul"} \cup Amps

identifier(o) ==
    CASE o \in Amps -> "amp1"
      [] o = "d1" -> "d1"
      [] o = "tv" -> "tv"
      [] o = "bad" -> "a-1"
      [] o = "zone" -> "z_1"
      [] o = "und" -> "__"
      [] o = "uni" -> "caf\\u00e9"
      [] o = "nul" -> ""

host(o) == IF o = "amp_b" THEN "h2" ELSE "h1"

(* the class of a device object, and isinstance(o, device_type): every    *)
(* device is an instance of the runtime-checkable DeviceProtocol.  NoType  *)
(* stands for device_type=None.                                            *)
type_of(o) ==
    CASE o \in Amps -> "MiniDSP"
      [] o = "tv" -> "AppleTV"
      [] OTHER -> "Device"

NoType == ""
DeviceTypes == {"MiniDSP", "AppleTV", "DeviceProtocol"}

(* a variant of isinstance that takes every device for an instance *)
isinstance_any(o, device_type) == TRUE

isinstance(o, device_type) == device_type = "DeviceProtocol" \/ type_of(o) = device_type

(* hasattr(o, "name") *)
has_name(o) == o = "bad"

is_dataclass(o) == o \in Amps \cup {"tv"}

(* @dataclass gives the class an __eq__ that compares the fields of two    *)
(* instances of the class; a plain class keeps object identity.            *)
eq(a, b) ==
    \/ a = b
    \/ /\ is_dataclass(a) /\ is_dataclass(b)
       /\ identifier(a) = identifier(b)
       /\ host(a) = host(b)

(* __hash__ of the @device decorator *)
hash(o) == identifier(o)

(* Python's set membership: equal hash, then identity or __eq__ *)
contains(set, o) == \E d \in set : hash(d) = hash(o) /\ eq(d, o)

(* the characters of an identifier, each by its class: an ASCII letter or  *)
(* digit ("alnum"), the underscore, a letter or digit that is not ASCII,   *)
(* as the e with acute accent, for which str.isalnum() is true as well     *)
(* ("unicode_alnum"), anything else                                        *)
Chars(str) ==
    CASE str = "amp1" -> <<"alnum", "alnum", "alnum", "alnum">>
      [] str = "d1" -> <<"alnum", "alnum">>
      [] str = "tv" -> <<"alnum", "alnum">>
      [] str = "a-1" -> <<"alnum", "other", "alnum">>
      [] str = "z_1" -> <<"alnum", "underscore", "alnum">>
      [] str = "__" -> <<"underscore", "underscore">>
      [] str = "caf\\u00e9" -> <<"alnum", "alnum", "alnum", "unicode_alnum">>
      [] str = "" -> <<>>

(* str.replace("_", "").isalnum(): some character is left and all are alnum *)
valid_identifier(str) ==
    LET kept == SelectSeq(Chars(str), LAMBDA c : c # "underscore")
    IN  kept # <<>> /\ \A i \in 1..Len(kept) : kept[i] \in {"alnum", "unicode_alnum"}

(* POLL_INTERVAL of the drivers, 1.0 s, in ticks *)
POLL_INTERVAL == 10

(* @sensor(poll_interval=..) of the sensor `name` of o's class *)
poll_interval(o, name) == IF o \in Amps THEN POLL_INTERVAL ELSE None

PolledSensors(o) == {name \in {"vol"} : poll_interval(o, name) # None}

-----------------------------------------------------------------------------
(* The configuration: @device(ttl, timeout) of the class, @sensor(ttl,     *)
(* timeout) of the sensor, and whether the sensor has a setter (fset).     *)
(* Times are in ticks of 0.1 s.                                            *)

NoLimits == [dttl |-> None, dtimeout |-> None, sttl |-> None, stimeout |-> None,
             fset |-> TRUE]

Configs ==
    { NoLimits,
      [dttl |-> 5, dtimeout |-> None, sttl |-> None, stimeout |-> 2, fset |-> TRUE],
      [dttl |-> 5, dtimeout |-> 2, sttl |-> 2, stimeout |-> None, fset |-> TRUE],
      [dttl |-> 5, dtimeout |-> None, sttl |-> 0, stimeout |-> None, fset |-> FALSE],
      [dttl |-> None, dtimeout |-> 2, sttl |-> None, stimeout |-> 0, fset |-> TRUE] }

(* a variant of effective_ttl that takes a sensor TTL of 0 for "not given" *)
falsy_ttl == IF cfg.sttl # None /\ cfg.sttl # 0 THEN cfg.sttl ELSE cfg.dttl

(* lines 354-363: the sensor's own value, else the device's default *)
effective_ttl == IF cfg.sttl # None THEN cfg.sttl ELSE cfg.dttl

effective_timeout == IF cfg.stimeout # None THEN cfg.stimeout ELSE cfg.dtimeout

-----------------------------------------------------------------------------
(* async_get: the cache *)

NoEntry == <<>>

(* a variant of should_use_cache that never trusts the cache *)
never_use_cache(instance_key, current_time) == FALSE

should_use_cache(instance_key, current_time) ==
    /\ effective_ttl # None
    /\ cache[instance_key] # NoEntry
    /\ (current_time - cache[instance_key][2]) < effective_ttl

(* a variant of value_changed that takes every value read for a new one *)
always_changed(instance_key, current_value) == TRUE

(* a variant of value_changed on a cache keyed by the sensor's name alone: *)
(* the value is compared with the entries of all instances                 *)
value_changed_any_instance(instance_key, current_value) ==
    ~ \E k \in DOMAIN cache :
          /\ k[2] = instance_key[2]
          /\ cache[k] # NoEntry
          /\ cache[k][1] = current_value

(* the test of lines 404-407: the value is new or differs from the cached one *)
value_changed(instance_key, current_value) ==
    \/ cache[instance_key] = NoEntry
    \/ cache[instance_key][1] # current_value

(* both branches of lines 404-416 store (current_value, current_time) *)
cache_store(instance_key, current_value, current_time) ==
    [cache EXCEPT ![instance_key] = <<current_value, current_time>>]

(* a variant of cache_invalidate that deletes the entries of all sensors of *)
(* the device                                                               *)
cache_invalidate_device(instance_key) ==
    [k \in DOMAIN cache |-> IF k[1] = instance_key[1] THEN NoEntry ELSE cache[k]]

(* a variant of cache_invalidate that keeps the entry *)
cache_keep(instance_key) == cache

(* __set__, lines 431-433: the entry of this instance_key is deleted *)
cache_invalidate(instance_key) ==
    [cache EXCEPT ![instance_key] = NoEntry]

NoEvent == [device |-> "", event_name |-> "", value |-> None]

(* asyncio.create_task(obj.raise_event(f"{name}_changed", current_value)) *)
changed_event(instance_key, current_value) ==
    [device |-> instance_key[1],
     event_name |-> instance_key[2] \o "_changed",
     value |-> current_value]

(* Exceptions, by class and by the frame that raised them.  On the Python  *)
(* this code needs (3.12: line 94 is PEP 695 syntax) asyncio.TimeoutError  *)
(* is the builtin TimeoutError, and so is socket.timeout.                  *)
DriverExceptions ==
    { [class |-> "Exception", raised_by |-> "fget"],
      [class |-> "TimeoutError", raised_by |-> "fget"] }

WaitForTimeout == [class |-> "TimeoutError", raised_by |-> "wait_for"]

(* lines 420-423: a TimeoutError leaving the try block is replaced by a new *)
(* TimeoutError; every other exception passes through                      *)
reraise(e) ==
    IF e.class = "TimeoutError"
    THEN [class |-> "TimeoutError", raised_by |-> "async_get"]
    ELSE e

-----------------------------------------------------------------------------
(* What a step reports: the operation, the task and instance_key it was    *)
(* for, what the operation returned or raised, whether the underlying read *)
(* function was invoked in the step and the event raised in it; for a step *)
(* of the registry the device, for a step of the event bus the callback,   *)
(* and for subscribe and unsubscribe the (device_name, event_name) pair as *)
(* key and whether the callback was subscribed to it when the step began.  *)

NoExc == [class |-> "", raised_by |-> ""]
NoRes == [kind |-> "none", value |-> None, exc |-> NoExc]
Returned(v) == [kind |-> "return", value |-> v, exc |-> NoExc]
Raised(e) == [kind |-> "raise", value |-> None, exc |-> e]

Step(op, task, key, res, driver, ev) ==
    [op |-> op, task |-> task, key |-> key, res |-> res, driver |-> driver, ev |-> ev,
     device |-> "", callback |-> "", held |-> FALSE]

(* a step of the registry or of a device's lifecycle, on device o *)
LifeStep(op, o, res) ==
    [Step(op, NoTask, <<>>, res, FALSE, NoEvent) EXCEPT !.device = o]

(* a step of the event bus: dispatcher d, event ev, callback c *)
BusStep(op, d, res, ev, c) ==
    [Step(op, d, <<>>, res, FALSE, ev) EXCEPT !.callback = c]

(* History of one instance_key.  okBegin: the latest current_time of a     *)
(* read that stored its value since the last write.  freshWrite: a write   *)
(* succeeded and no read has begun since.  afterTimeout: a read timed out  *)
(* and no read has begun since.  runValue, runEvents: the value the        *)
(* underlying read function returned last since the last write, and the    *)
(* events raised while it kept returning that value (counted up to 2).     *)
(* returned: the values the underlying read function has returned, kept    *)
(* for the sensors of DeliveryKeys, whose values are followed to the       *)
(* subscribers: playstatus of the device tv.  before: the tasks that were   *)
(* awaiting the underlying read function when the sensor was last written   *)
(* and still are; masked: the cache entry was stored by such a task; both   *)
(* kept for the sensors of WriteKeys, whose writes are followed past the    *)
(* reads in flight: vol of the device amp_a.                                *)
DeliveryKeys == {<<"tv", "playstatus">>}
WriteKeys == {<<"amp_a", "vol">>}

NoHistory ==
    [okBegin |-> None, freshWrite |-> FALSE, afterTimeout |-> FALSE,
     runValue |-> None, runEvents |-> 0, returned |-> {},
     before |-> {}, masked |-> FALSE]

HistBegin(k) ==
    [hist EXCEPT ![k].freshWrite = FALSE, ![k].afterTimeout = FALSE]

HistStored(k, v, t, raised) ==
    [hist EXCEPT ![k].okBegin = Max(@, t),
                 ![k].returned = IF k \in DeliveryKeys THEN @ \cup {v} ELSE @,
                 ![k].runValue = v,
                 ![k].runEvents =
                     IF hist[k].runValue = v
                     THEN (IF raised /\ @ < 2 THEN @ + 1 ELSE @)
                     ELSE (IF raised THEN 1 ELSE 0)]

HistWritten(k) ==
    [hist EXCEPT ![k] = [NoHistory EXCEPT
                            !.freshWrite = TRUE,
                            !.returned = hist[k].returned,
                            !.before = IF k \in WriteKeys
                                       THEN {t \in DOMAIN rd : rd[t].pc = "await"
                                                                /\ rd[t].key = k}
                                       ELSE {}]]

(* the read of task t is over, h is the history so far; stored: it stored   *)
(* its value                                                                *)
HistReadOver(h, k, t, stored) ==
    IF k \in WriteKeys
    THEN [h EXCEPT ![k].before = @ \ {t},
                   ![k].masked = IF stored THEN t \in h[k].before ELSE @]
    ELSE h

HistTimedOut(k) ==
    [hist EXCEPT ![k].afterTimeout = TRUE]

-----------------------------------------------------------------------------
(* The scenario of the specification, followed on device d1, sensor vol, with *)
(* TTL 0.5 s = 5 ticks: stage n means its first n steps have been seen and  *)
(* ok that each of them did what the scenario says.                        *)

ScenarioKey == <<"d1", "vol">>
ScenarioOff == [stage |-> None, t0 |-> None, task |-> NoTask, ok |-> TRUE]
ScenarioStart == [stage |-> 0, t0 |-> None, task |-> NoTask, ok |-> TRUE]

Scenario(o, c) ==
    IF scen.stage = None \/ scen.stage = 6 \/ o.key # ScenarioKey THEN scen
    ELSE IF scen.stage = 0 THEN
        IF o.op = "get_sensor_value" /\ cache[ScenarioKey] = NoEntry
        THEN [scen EXCEPT !.stage = 1, !.t0 = now, !.task = o.task]
        ELSE scen
    ELSE IF scen.stage = 1 /\ o.op = "read_ok" /\ o.task = scen.task
                           /\ o.res.value = 10 THEN
        [scen EXCEPT !.stage = 2,
                     !.ok = /\ c[ScenarioKey] = <<10, scen.t0>>
                            /\ o.ev = changed_event(ScenarioKey, 10)]
    ELSE IF scen.stage = 2 /\ o.op \in {"read_hit", "get_sensor_value"}
                           /\ now = scen.t0 + 2 THEN
        [scen EXCEPT !.stage = 3,
                     !.ok = /\ scen.ok
                            /\ o.res = Returned(10)
                            /\ ~o.driver
                            /\ o.ev = NoEvent]
    ELSE IF scen.stage = 3 /\ o.op = "write" /\ o.res.value = 20 THEN
        [scen EXCEPT !.stage = 4, !.ok = scen.ok /\ c[ScenarioKey] = NoEntry]
    ELSE IF scen.stage = 4 /\ o.op \in {"read_hit", "get_sensor_value"}
                           /\ now = scen.t0 + 3 THEN
        [scen EXCEPT !.stage = 5, !.task = o.task, !.ok = scen.ok /\ o.driver]
    ELSE IF scen.stage = 5 /\ o.op = "read_ok" /\ o.task = scen.task
                           /\ o.res.value = 20 THEN
        [scen EXCEPT !.stage = 6,
                     !.ok = /\ scen.ok
                            /\ o.res = Returned(20)
                            /\ o.ev = changed_event(ScenarioKey, 20)]
    ELSE ScenarioOff

-----------------------------------------------------------------------------
(* A read: await device.sensor, i.e. SensorProperty.__get__(obj), by a     *)
(* caller task or by a polling task (_polling_loop awaits the same         *)
(* __get__).  pc of a caller: idle, await.  pc of a polling task: none (no *)
(* such task), poll (created, not yet run), await, sleep (poll_interval),  *)
(* backoff (the sleep after an error), done.                               *)

Idle == [pc |-> "idle", key |-> <<>>, current_time |-> None, calls |-> 0,
         cancel |-> FALSE]

NoPoller == [pc |-> "none", key |-> <<>>, current_time |-> None, calls |-> 0,
             cancel |-> FALSE]

CanBegin(t, k) ==
    IF t \in Tasks
    THEN rd[t].pc = "idle"
    ELSE rd[t].pc \in {"poll", "sleep", "backoff"} /\ rd[t].key = k /\ ~rd[t].cancel

(* a variant of CanResume in which a read goes on after its task has been  *)
(* cancelled                                                               *)
CanResumeCancelled(t) == rd[t].pc = "await"

(* a cancelled polling task gets CancelledError where it waits, whatever  *)
(* became of what it waited for                                           *)
CanResume(t) == rd[t].pc = "await" /\ ~rd[t].cancel

(* a variant of AfterRead in which a failed read ends the polling loop *)
AfterReadStop(t, ok) ==
    IF t \in Tasks
    THEN Idle
    ELSE [rd[t] EXCEPT !.pc = IF ok THEN "sleep" ELSE "done",
                       !.current_time = None, !.calls = 0]

(* where the task goes when its read is over: a caller has its result, the *)
(* polling loop sleeps poll_interval after a value, 1 s after an error     *)
AfterRead(t, ok) ==
    IF t \in Tasks
    THEN Idle
    ELSE [rd[t] EXCEPT !.pc = IF ok THEN "sleep" ELSE "backoff",
                       !.current_time = None, !.calls = 0]

(* async_get up to its first suspension: the cache is consulted with the   *)
(* time the read began; a hit returns at once, a miss invokes the          *)
(* underlying read function (under wait_for when a timeout is set).        *)
ReadBegin(t, k) ==
    /\ CanBegin(t, k)
    /\ LET current_time == now IN
       IF should_use_cache(k, current_time)
       THEN /\ rd' = [rd EXCEPT ![t] = AfterRead(t, TRUE)]
            /\ out' = Step("read_hit", t, k, Returned(cache[k][1]), FALSE, NoEvent)
       ELSE /\ rd' = [rd EXCEPT ![t].pc = "await", ![t].key = k,
                                ![t].current_time = current_time, ![t].calls = 1]
            /\ out' = Step("get_sensor_value", t, k, NoRes, TRUE, NoEvent)
    /\ hist' = HistBegin(k)
    /\ scen' = Scenario(out', cache)
    /\ UNCHANGED <<cfg, telnetVars, now, cache, evq, busVars, lifeVars>>

(* the underlying read function returns current_value: lines 400-418.    *)
(* asyncio.wait_for with a timeout of 0 or less cancels a read that has   *)
(* not finished when it is called, so such a read never completes.        *)
ReadReturn(t, current_value) ==
    /\ CanResume(t)
    /\ effective_timeout # None =>
          (effective_timeout > 0 /\ now - rd[t].current_time <= effective_timeout)
    /\ LET k == rd[t].key
           changed == value_changed(k, current_value)
           ev == IF changed THEN changed_event(k, current_value) ELSE NoEvent
       IN  /\ changed => Len(evq) < MaxEvq
           /\ cache' = cache_store(k, current_value, rd[t].current_time)
           /\ evq' = IF changed THEN Append(evq, ev) ELSE evq
           /\ out' = Step("read_ok", t, k, Returned(current_value), FALSE, ev)
           /\ hist' = HistReadOver(HistStored(k, current_value, rd[t].current_time,
                                               changed), k, t, TRUE)
    /\ rd' = [rd EXCEPT ![t] = AfterRead(t, TRUE)]
    /\ scen' = Scenario(out', cache')
    /\ UNCHANGED <<cfg, telnetVars, now, busVars, lifeVars>>

(* the underlying read function raises e *)
ReadRaise(t, e) ==
    /\ CanResume(t)
    /\ effective_timeout # None =>
          (effective_timeout > 0 /\ now - rd[t].current_time <= effective_timeout)
    /\ out' = Step("read_raise", t, rd[t].key, Raised(reraise(e)), FALSE, NoEvent)
    /\ rd' = [rd EXCEPT ![t] = AfterRead(t, FALSE)]
    /\ hist' = HistReadOver(hist, rd[t].key, t, FALSE)
    /\ scen' = Scenario(out', cache)
    /\ UNCHANGED <<cfg, telnetVars, now, cache, evq, busVars, lifeVars>>

(* a variant of ReadTimeout that also drops the cache entry *)
ReadTimeoutDrop(t) ==
    /\ CanResume(t)
    /\ effective_timeout # None
    /\ now - rd[t].current_time >= effective_timeout
    /\ out' = Step("read_timeout", t, rd[t].key, Raised(reraise(WaitForTimeout)),
                   FALSE, NoEvent)
    /\ rd' = [rd EXCEPT ![t] = AfterRead(t, FALSE)]
    /\ hist' = HistReadOver(HistTimedOut(rd[t].key), rd[t].key, t, FALSE)
    /\ cache' = cache_invalidate(rd[t].key)
    /\ scen' = Scenario(out', cache')
    /\ UNCHANGED <<cfg, telnetVars, now, evq, busVars, lifeVars>>

(* asyncio.wait_for gives up after effective_timeout: lines 393-396, 420 *)
ReadTimeout(t) ==
    /\ CanResume(t)
    /\ effective_timeout # None
    /\ now - rd[t].current_time >= effective_timeout
    /\ out' = Step("read_timeout", t, rd[t].key, Raised(reraise(WaitForTimeout)),
                   FALSE, NoEvent)
    /\ rd' = [rd EXCEPT ![t] = AfterRead(t, FALSE)]
    /\ hist' = HistReadOver(HistTimedOut(rd[t].key), rd[t].key, t, FALSE)
    /\ scen' = Scenario(out', cache)
    /\ UNCHANGED <<cfg, telnetVars, now, cache, evq, busVars, lifeVars>>

(* a variant of Write that does not look for the setter: it deletes the   *)
(* entry even when the sensor has none                                     *)
WriteUnchecked(k, value) ==
    /\ cache' = cache_invalidate(k)
    /\ hist' = HistWritten(k)
    /\ out' = Step(IF cfg.fset THEN "write" ELSE "not_writable", NoTask, k,
                   IF cfg.fset THEN Returned(value)
                   ELSE Raised([class |-> "AttributeError", raised_by |-> "__set__"]),
                   FALSE, NoEvent)
    /\ scen' = Scenario(out', cache')
    /\ UNCHANGED <<cfg, telnetVars, now, rd, evq, busVars, lifeVars>>

(* device.sensor = value, i.e. SensorProperty.__set__(obj, value) *)
Write(k, value) ==
    /\ IF ~cfg.fset
       THEN /\ out' = Step("not_writable", NoTask, k,
                           Raised([class |-> "AttributeError", raised_by |-> "__set__"]),
                           FALSE, NoEvent)
            /\ UNCHANGED <<cache, hist>>
       ELSE \/ /\ cache' = cache_invalidate(k)
               /\ hist' = HistWritten(k)
               /\ out' = Step("write", NoTask, k, Returned(value), FALSE, NoEvent)
            \/ /\ out' = Step("write_raise", NoTask, k,
                              Raised([class |-> "Exception", raised_by |-> "fset"]),
                              FALSE, NoEvent)
               /\ UNCHANGED <<cache, hist>>
    /\ scen' = Scenario(out', cache')
    /\ UNCHANGED <<cfg, telnetVars, now, rd, evq, busVars, lifeVars>>

-----------------------------------------------------------------------------
(* The event bus: Controller.subscribe / unsubscribe / handle_event *)

Callbacks == {"cb1", "cb2"}

(* cb1, cb2 are coroutine functions, fn is a plain function *)
iscoroutinefunction(callback) == callback \in Callbacks

(* the device whose listener publishes, the names under which callbacks    *)
(* are subscribed                                                          *)
EventDevices == {"tv"}
DeviceNames == {identifier(o) : o \in EventDevices}
EventNames == {"playstatus_changed"}

(* f"{device_name}.{event_name}" *)
KeyOf(device_name, event_name) == device_name \o "." \o event_name

(* self.event_subscribers.get(key, set()) *)
subscribers_of(key) ==
    IF key \in DOMAIN event_subscribers THEN event_subscribers[key] ELSE {}

(* A handle_event call in progress iterates over the set object it got from *)
(* the table.  subs: what that set object holds now; live: the table still  *)
(* holds that object; used: its size when the iteration began; visited: the *)
(* callbacks the iterator has produced; cur: the callback being awaited;    *)
(* subs0: the callbacks subscribed when the call began; raised: the         *)
(* callbacks that raised.                                                   *)
NoDisp == [pc |-> "none", ev |-> NoEvent, key |-> "", subs |-> {}, live |-> FALSE,
           used |-> 0, visited |-> {}, cur |-> "", subs0 |-> {}, raised |-> {}]

(* The tasks made by create_task run in the order in which they were made. *)
(* order.seq: the handle_event calls in progress, the one that began first *)
(* first; it is followed where order.on, and stays empty elsewhere.        *)
OrderOff == [on |-> FALSE, seq |-> <<>>]
OrderOn == [on |-> TRUE, seq |-> <<>>]

(* the handle_event call d begins / is over *)
OrderBegun(d) ==
    IF order.on THEN [order EXCEPT !.seq = Append(@, d)] ELSE order

OrderOver(d) ==
    IF order.on THEN [order EXCEPT !.seq = SelectSeq(@, LAMBDA x : x # d)] ELSE order

(* the set object of key changes to newsubs: every iteration over it sees it *)
set_changed(dsp, key, newsubs) ==
    [d \in DOMAIN dsp |->
        IF dsp[d].pc # "none" /\ dsp[d].live /\ dsp[d].key = key
        THEN [dsp[d] EXCEPT !.subs = newsubs]
        ELSE dsp[d]]

(* the table drops the set object of key: an iteration over it keeps it *)
set_dropped(dsp, key) ==
    [d \in DOMAIN dsp |->
        IF dsp[d].pc # "none" /\ dsp[d].key = key
        THEN [dsp[d] EXCEPT !.live = FALSE]
        ELSE dsp[d]]

(* a step of subscribe or unsubscribe *)
TableStep(op, device_name, event_name, res, callback) ==
    [BusStep(op, NoTask, res, NoEvent, callback) EXCEPT
        !.key = <<device_name, event_name>>,
        !.held = callback \in subscribers_of(KeyOf(device_name, event_name))]

(* a variant of subscribe that makes the set of the key before it looks at *)
(* the callback                                                            *)
SubscribeKeyFirst(device_name, event_name, callback) ==
    /\ LET key == KeyOf(device_name, event_name)
           newsubs == subscribers_of(key) \cup
                         (IF iscoroutinefunction(callback) THEN {callback} ELSE {})
       IN  /\ event_subscribers' =
                  [k \in DOMAIN event_subscribers \cup {key} |->
                      IF k = key THEN newsubs ELSE event_subscribers[k]]
           /\ disp' = set_changed(disp, key, newsubs)
           /\ order' = order
           /\ out' = TableStep("subscribe", device_name, event_name,
                               IF iscoroutinefunction(callback)
                               THEN Returned(None)
                               ELSE Raised([class |-> "ValueError",
                                            raised_by |-> "subscribe"]),
                               callback)
    /\ UNCHANGED <<sensorVars, evq, lifeVars>>

Subscribe(device_name, event_name, callback) ==
    /\ IF ~iscoroutinefunction(callback)
       THEN /\ out' = TableStep("subscribe", device_name, event_name,
                                Raised([class |-> "ValueError", raised_by |-> "subscribe"]),
                                callback)
            /\ UNCHANGED busVars
       ELSE LET key == KeyOf(device_name, event_name)
                newsubs == subscribers_of(key) \cup {callback}
            IN  /\ event_subscribers' =
                       [k \in DOMAIN event_subscribers \cup {key} |->
                           IF k = key THEN newsubs ELSE event_subscribers[k]]
                /\ disp' = set_changed(disp, key, newsubs)
                /\ order' = order
                /\ out' = TableStep("subscribe", device_name, event_name,
                                    Returned(None), callback)
    /\ UNCHANGED <<sensorVars, evq, lifeVars>>

(* a variant of Unsubscribe that leaves the emptied set in the table *)
UnsubscribeKeepKey(device_name, event_name, callback) ==
    /\ LET key == KeyOf(device_name, event_name) IN
       IF key \notin DOMAIN event_subscribers
       THEN UNCHANGED busVars
       ELSE LET newsubs == event_subscribers[key] \ {callback} IN
            /\ event_subscribers' = [event_subscribers EXCEPT ![key] = newsubs]
            /\ disp' = set_changed(disp, key, newsubs)
            /\ order' = order
    /\ out' = TableStep("unsubscribe", device_name, event_name, Returned(None), callback)
    /\ UNCHANGED <<sensorVars, evq, lifeVars>>

Unsubscribe(device_name, event_name, callback) ==
    /\ LET key == KeyOf(device_name, event_name) IN
       IF key \notin DOMAIN event_subscribers
       THEN UNCHANGED busVars
       ELSE LET newsubs == event_subscribers[key] \ {callback} IN
            IF newsubs = {}
            THEN /\ event_subscribers' =
                        [k \in DOMAIN event_subscribers \ {key} |-> event_subscribers[k]]
                 /\ disp' = set_dropped(set_changed(disp, key, newsubs), key)
                 /\ order' = order
            ELSE /\ event_subscribers' = [event_subscribers EXCEPT ![key] = newsubs]
                 /\ disp' = set_changed(disp, key, newsubs)
                 /\ order' = order
    /\ out' = TableStep("unsubscribe", device_name, event_name, Returned(None), callback)
    /\ UNCHANGED <<sensorVars, evq, lifeVars>>

(* a device's listener publishes: asyncio.create_task(device.raise_event(..)) *)
Publish(o, event_name, value) ==
    /\ Len(evq) < MaxEvq
    /\ evq' = Append(evq, [device |-> o, event_name |-> event_name, value |-> value])
    /\ out' = BusStep("create_task", NoTask, NoRes, NoEvent, "")
    /\ UNCHANGED <<sensorVars, busVars, lifeVars>>

(* The task made by create_task(obj.raise_event(..)) runs: raise_event     *)
(* calls handle_event, which looks the subscribers up and awaits the first *)
(* callback; with no subscriber it returns at once.                        *)
RaiseEvent ==
    /\ evq # <<>>
    /\ evq' = Tail(evq)
    /\ LET ev == Head(evq)
           key == KeyOf(identifier(ev.device), ev.event_name)
           subscribers == subscribers_of(key)
       IN  IF subscribers = {}
           THEN /\ out' = BusStep("handle_event", NoTask, Returned(None), ev, "")
                /\ disp' = disp
                /\ order' = order
           ELSE \E d \in DOMAIN disp, callback \in subscribers :
                   /\ disp[d].pc = "none"
                   /\ \A d2 \in DOMAIN disp : disp[d2].pc = "none" => d2[2] >= d[2]
                   /\ disp' = [disp EXCEPT ![d] =
                                  [pc |-> "callback", ev |-> ev, key |-> key,
                                   subs |-> subscribers, live |-> TRUE,
                                   used |-> Cardinality(subscribers),
                                   visited |-> {callback}, cur |-> callback,
                                   subs0 |-> subscribers, raised |-> {}]]
                   /\ order' = OrderBegun(d)
                   /\ out' = BusStep("handle_event", d, NoRes, ev, callback)
    /\ call' = [o \in DOMAIN call |->
                   IF call[o].pending > 0
                   THEN [call[o] EXCEPT !.pending = @ - 1] ELSE call[o]]
    /\ UNCHANGED <<sensorVars, event_subscribers, devices, ctl, polling_tasks, life>>

(* The awaited callback is over; the for loop asks the set iterator for    *)
(* the next callback.  The iterator raises RuntimeError when the size of   *)
(* the set is not the size it had when the iteration began.  dsp is disp   *)
(* with the outcome of the callback recorded.                              *)
next_callback(d, dsp) ==
    /\ IF Cardinality(dsp[d].subs) # dsp[d].used
       THEN /\ disp' = [dsp EXCEPT ![d] = NoDisp]
            /\ order' = OrderOver(d)
            /\ out' = BusStep("handle_event_raise", d,
                              Raised([class |-> "RuntimeError", raised_by |-> "handle_event"]),
                              dsp[d].ev, "")
       ELSE IF dsp[d].subs \ dsp[d].visited = {}
       THEN /\ disp' = [dsp EXCEPT ![d] = NoDisp]
            /\ order' = OrderOver(d)
            /\ out' = BusStep("handle_event_return", d, Returned(None), dsp[d].ev, "")
       ELSE \E callback \in dsp[d].subs \ dsp[d].visited :
               /\ disp' = [dsp EXCEPT ![d].cur = callback,
                                      ![d].visited = @ \cup {callback}]
               /\ order' = order
               /\ out' = BusStep("callback", d, NoRes, dsp[d].ev, callback)
    /\ UNCHANGED <<sensorVars, evq, event_subscribers, lifeVars>>

(* await callback(value) returns *)
CallbackReturn(d) ==
    /\ disp[d].pc = "callback"
    /\ next_callback(d, disp)

(* a variant of CallbackRaise without the try / except around the await:   *)
(* the exception of the callback ends handle_event                         *)
CallbackRaiseUncaught(d) ==
    /\ disp[d].pc = "callback"
    /\ disp' = [disp EXCEPT ![d] = NoDisp]
    /\ order' = OrderOver(d)
    /\ out' = BusStep("handle_event_raise", d,
                      Raised([class |-> "Exception", raised_by |-> "callback"]),
                      disp[d].ev, "")
    /\ UNCHANGED <<sensorVars, evq, event_subscribers, lifeVars>>

(* await callback(value) raises an Exception: it is logged *)
CallbackRaise(d) ==
    /\ disp[d].pc = "callback"
    /\ next_callback(d, [disp EXCEPT ![d].raised = @ \cup {disp[d].cur}])

-----------------------------------------------------------------------------
(* The registry and the lifecycle: Controller.register_device / start /    *)
(* stop and the connect / disconnect wrappers of @device.  Devices are     *)
(* registered before start(), start() comes before stop(), as in the       *)
(* lifespan of the API server; connect() and disconnect() of a registered  *)
(* device are also called directly while the controller runs.              *)

(* isinstance(device, DeviceProtocol) and hasattr(device, "_device_config") *)
is_device(o) == o # "misc"

NoCall == [op |-> "none", pc |-> "", by |-> "", pending |-> 0]

(* ctl.direct counts the direct connect() / disconnect() calls;            *)
(* attempted and stop_attempted are the devices on which start() has       *)
(* called connect() and stop() has called disconnect()                     *)
NoCtl == [pc |-> "init", todo |-> {}, cur |-> "", attempted |-> {}, ok |-> {},
          raised |-> FALSE, direct |-> 0, stop_attempted |-> {}]

Live(p) == rd[p].pc \in {"poll", "await", "sleep", "backoff"}

FreePollers == {p \in DOMAIN rd : p \in Pollers /\ rd[p].pc = "none"}

(* the polling tasks that the connect() calls in progress are going to make *)
Reserved == {<<o, name>> \in DOMAIN cache :
                o \in DOMAIN call /\ call[o].op = "connect" /\ name \in PolledSensors(o)}

(* a variant of register_device that adds the device to the set before it  *)
(* has looked at its identifier                                            *)
RegisterDeviceEager(o) ==
    /\ ctl.pc = "init"
    /\ IF ~is_device(o)
       THEN /\ out' = LifeStep("register_device", o,
                       Raised([class |-> "TypeError", raised_by |-> "register_device"]))
            /\ devices' = devices
       ELSE IF ~valid_identifier(identifier(o))
       THEN /\ out' = LifeStep("register_device", o,
                       Raised([class |-> "AttributeError",
                               raised_by |-> "register_device: device.name"]))
            /\ devices' = devices \cup {o}
       ELSE /\ out' = LifeStep("register_device", o, Returned(None))
            /\ devices' = devices \cup {o}
    /\ UNCHANGED <<sensorVars, evq, busVars, ctl, call, polling_tasks, life>>

(* register_device, lines 63-92.  The message of the error for an invalid *)
(* identifier is formatted with device.name (line 81), which raises        *)
(* AttributeError when the device has no such attribute.                   *)
RegisterDevice(o) ==
    /\ ctl.pc = "init"
    /\ IF ~is_device(o)
       THEN /\ out' = LifeStep("register_device", o,
                       Raised([class |-> "TypeError", raised_by |-> "register_device"]))
            /\ devices' = devices
       ELSE IF ~valid_identifier(identifier(o))
       THEN /\ out' = LifeStep("register_device", o,
                       IF has_name(o)
                       THEN Raised([class |-> "ValueError",
                                    raised_by |-> "register_device: invalid characters"])
                       ELSE Raised([class |-> "AttributeError",
                                    raised_by |-> "register_device: device.name"]))
            /\ devices' = devices
       ELSE IF contains(devices, o)
       THEN /\ out' = LifeStep("register_device", o,
                       Raised([class |-> "ValueError",
                               raised_by |-> "register_device: already registered"]))
            /\ devices' = devices
       ELSE /\ out' = LifeStep("register_device", o, Returned(None))
            /\ devices' = devices \cup {o}
    /\ UNCHANGED <<sensorVars, evq, busVars, ctl, call, polling_tasks, life>>

(* get_device, lines 94-116: the loop over the set returns, or raises for, *)
(* the first device it meets whose identifier is the argument              *)
GetDevice(ident, device_type) ==
    /\ LET found == {d \in devices : identifier(d) = ident} IN
       IF found = {}
       THEN out' = [LifeStep("get_device", "",
                        Raised([class |-> "KeyError", raised_by |-> "get_device"]))
                    EXCEPT !.key = <<ident, device_type>>]
       ELSE \E d \in found :
               IF device_type # NoType /\ ~isinstance(d, device_type)
               THEN out' = [LifeStep("get_device", "",
                               Raised([class |-> "TypeError", raised_by |-> "get_device"]))
                            EXCEPT !.key = <<ident, device_type>>]
               ELSE out' = [LifeStep("get_device", d, Returned(None))
                            EXCEPT !.key = <<ident, device_type>>]
    /\ UNCHANGED <<sensorVars, evq, busVars, lifeVars>>

StartCall == [op |-> "connect", pc |-> "original", by |-> "start", pending |-> 0]

(* start() up to its first suspension: the loop calls connect() of a first *)
(* device, which awaits the driver's connect                               *)
StartBegin ==
    /\ ctl.pc = "init"
    /\ IF devices = {}
       THEN /\ ctl' = [ctl EXCEPT !.pc = "running"]
            /\ call' = call
       ELSE \E n \in devices :
               /\ ctl' = [ctl EXCEPT !.pc = "starting", !.todo = devices, !.cur = n,
                                     !.attempted = {n}]
               /\ call' = [call EXCEPT ![n] = StartCall]
    /\ out' = LifeStep("start", "", NoRes)
    /\ UNCHANGED <<sensorVars, evq, busVars, devices, polling_tasks, life>>

(* a variant of after_connect_failed that gives the other devices up *)
give_up(todo) == {}

(* except Exception in start(): the failure is logged and the loop goes on *)
(* with the devices that are left                                          *)
after_connect_failed(todo) == todo

(* connect() of device o, called by start(), is over: the loop takes the  *)
(* next device, or start() returns                                         *)
StartNextDevice(o, succeeded) ==
    LET left == ctl.todo \ {o}
        todo == IF succeeded THEN left ELSE after_connect_failed(left)
        ok == IF succeeded THEN ctl.ok \cup {o} ELSE ctl.ok
    IN  IF todo = {}
        THEN /\ ctl' = [ctl EXCEPT !.pc = "running", !.todo = {}, !.cur = "", !.ok = ok]
             /\ call' = [call EXCEPT ![o] = NoCall]
        ELSE \E n \in todo :
                /\ ctl' = [ctl EXCEPT !.todo = todo, !.cur = n,
                                      !.attempted = @ \cup {n}, !.ok = ok]
                /\ call' = [call EXCEPT ![o] = NoCall, ![n] = StartCall]

(* device.connect() called directly on a registered device *)
ConnectDirect(o) ==
    /\ ctl.pc = "running"
    /\ o \in devices
    /\ call[o].op = "none"
    /\ Cardinality(FreePollers) >= Cardinality(Reserved) + Cardinality(PolledSensors(o))
    /\ ctl.direct < MaxDirect
    /\ ctl' = [ctl EXCEPT !.direct = @ + 1]
    /\ call' = [call EXCEPT ![o] = [StartCall EXCEPT !.by = "direct"]]
    /\ out' = LifeStep("connect", o, NoRes)
    /\ UNCHANGED <<sensorVars, evq, busVars, devices, polling_tasks, life>>

(* original_connect returns: the wrapper sets _polling_tasks to a new dict *)
(* and creates a polling task for every sensor with a poll_interval        *)
ConnectReturn(o) ==
    /\ call[o].op = "connect"
    /\ Cardinality(FreePollers) >= Cardinality(PolledSensors(o))
    /\ LET names == PolledSensors(o)
           new == CHOOSE S \in SUBSET FreePollers :
                      /\ Cardinality(S) = Cardinality(names)
                      /\ \A p \in S, q \in FreePollers \ S : p[2] < q[2]
           attr_name == CHOOSE f \in [new -> names] :
                            \A name \in names : \E p \in new : f[p] = name
       IN  /\ rd' = [p \in DOMAIN rd |->
                        IF p \in new
                        THEN [pc |-> "poll", key |-> <<o, attr_name[p]>>,
                              current_time |-> None, calls |-> 0, cancel |-> FALSE]
                        ELSE rd[p]]
           /\ polling_tasks' = [polling_tasks EXCEPT ![o] = new]
    /\ life' = [life EXCEPT ![o] = "connected"]
    /\ IF call[o].by = "start"
       THEN StartNextDevice(o, TRUE)
       ELSE call' = [call EXCEPT ![o] = NoCall] /\ ctl' = ctl
    /\ out' = LifeStep("connect_return", o, Returned(None))
    /\ UNCHANGED <<cfg, telnetVars, now, cache, hist, scen, evq, busVars, devices>>

(* original_connect raises: so does connect(), before it touches            *)
(* _polling_tasks                                                           *)
ConnectRaise(o) ==
    /\ call[o].op = "connect"
    /\ IF call[o].by = "start"
       THEN StartNextDevice(o, FALSE)
       ELSE call' = [call EXCEPT ![o] = NoCall] /\ ctl' = ctl
    /\ out' = LifeStep("connect_raise", o,
                       Raised([class |-> "Exception", raised_by |-> "original_connect"]))
    /\ UNCHANGED <<sensorVars, evq, busVars, devices, polling_tasks, life>>

(* disconnect() up to its first suspension: task.cancel() for every task   *)
(* of _polling_tasks, then gather waits for them; with no task gather is   *)
(* done at once and original_disconnect is awaited.  pending: the          *)
(* raise_event tasks that are ahead in the loop's queue.                   *)
cancel_all(r, o) ==
    [p \in DOMAIN r |->
        IF p \in polling_tasks[o] THEN [r[p] EXCEPT !.cancel = TRUE] ELSE r[p]]

disconnect_call(o, by) ==
    IF polling_tasks[o] = {}
    THEN [op |-> "disconnect", pc |-> "original", by |-> by, pending |-> 0]
    ELSE [op |-> "disconnect", pc |-> "gather", by |-> by, pending |-> Len(evq)]

(* device.disconnect() called directly on a registered device *)
DisconnectDirect(o) ==
    /\ ctl.pc = "running"
    /\ o \in devices
    /\ call[o].op = "none"
    /\ ctl.direct < MaxDirect
    /\ ctl' = [ctl EXCEPT !.direct = @ + 1]
    /\ call' = [call EXCEPT ![o] = disconnect_call(o, "direct")]
    /\ rd' = cancel_all(rd, o)
    /\ out' = LifeStep("disconnect", o, NoRes)
    /\ UNCHANGED <<cfg, telnetVars, now, cache, hist, scen, evq, busVars, devices,
                   polling_tasks, life>>

(* a cancelled polling task runs: CancelledError is raised where it waits, *)
(* the loop breaks, the task is done                                       *)
PollerCancelled(p) ==
    /\ Live(p)
    /\ rd[p].cancel
    /\ rd' = [rd EXCEPT ![p].pc = "done", ![p].current_time = None, ![p].calls = 0]
    /\ out' = Step("cancelled", p, rd[p].key, NoRes, FALSE, NoEvent)
    /\ hist' = HistReadOver(hist, rd[p].key, p, FALSE)
    /\ UNCHANGED <<cfg, telnetVars, now, cache, scen, evq, busVars, lifeVars>>

(* gather is over: _polling_tasks.clear(), then original_disconnect is     *)
(* awaited                                                                 *)
DisconnectGathered(o) ==
    /\ call[o].op = "disconnect"
    /\ call[o].pc = "gather"
    /\ call[o].pending = 0
    /\ \A p \in polling_tasks[o] : rd[p].pc = "done"
    /\ rd' = [p \in DOMAIN rd |-> IF p \in polling_tasks[o] THEN NoPoller ELSE rd[p]]
    /\ polling_tasks' = [polling_tasks EXCEPT ![o] = {}]
    /\ call' = [call EXCEPT ![o].pc = "original"]
    /\ out' = LifeStep("original_disconnect", o, NoRes)
    /\ UNCHANGED <<cfg, telnetVars, now, cache, hist, scen, evq, busVars, devices, ctl, life>>

(* a variant of after_disconnect_failed that leaves the other devices out *)
abandon(todo) == {}

(* except Exception in stop(): the failure is logged and the loop goes on  *)
(* with the devices that are left                                          *)
after_disconnect_failed(todo) == todo

(* disconnect() of device o, called by stop(), is over: the loop takes the *)
(* next device, or stop() clears the registry and the subscriptions and    *)
(* returns                                                                 *)
StopNextDevice(o, succeeded) ==
    LET left == ctl.todo \ {o}
        todo == IF succeeded THEN left ELSE after_disconnect_failed(left)
    IN
    IF todo = {}
    THEN /\ ctl' = [ctl EXCEPT !.pc = "stopped", !.todo = {}, !.cur = ""]
         /\ call' = [call EXCEPT ![o] = NoCall]
         /\ rd' = rd
         /\ devices' = {}
         /\ event_subscribers' = [k \in {} |-> {}]
         /\ disp' = [d \in DOMAIN disp |-> [disp[d] EXCEPT !.live = FALSE]]
         /\ order' = order
    ELSE \E n \in todo :
            /\ ctl' = [ctl EXCEPT !.todo = todo, !.cur = n,
                                  !.stop_attempted = @ \cup {n}]
            /\ call' = [call EXCEPT ![o] = NoCall, ![n] = disconnect_call(n, "stop")]
            /\ rd' = cancel_all(rd, n)
            /\ UNCHANGED <<devices, busVars>>

(* original_disconnect returns, and so does disconnect() *)
DisconnectReturn(o) ==
    /\ call[o].op = "disconnect"
    /\ call[o].pc = "original"
    /\ life' = [life EXCEPT ![o] = "disconnected"]
    /\ IF call[o].by = "stop"
       THEN StopNextDevice(o, TRUE)
       ELSE /\ call' = [call EXCEPT ![o] = NoCall]
            /\ UNCHANGED <<rd, ctl, devices, busVars>>
    /\ out' = LifeStep("disconnect_return", o, Returned(None))
    /\ UNCHANGED <<cfg, telnetVars, now, cache, hist, scen, evq, polling_tasks>>

(* original_disconnect raises, and so does disconnect(); stop() logs it *)
DisconnectRaise(o) ==
    /\ call[o].op = "disconnect"
    /\ call[o].pc = "original"
    /\ IF call[o].by = "stop"
       THEN StopNextDevice(o, FALSE)
       ELSE /\ call' = [call EXCEPT ![o] = NoCall]
            /\ UNCHANGED <<rd, ctl, devices, busVars>>
    /\ out' = LifeStep("disconnect_raise", o,
                       Raised([class |-> "Exception", raised_by |-> "original_disconnect"]))
    /\ UNCHANGED <<cfg, telnetVars, now, cache, hist, scen, evq, polling_tasks, life>>

(* stop() up to its first suspension *)
StopBegin ==
    /\ ctl.pc = "running"
    /\ \A o \in DOMAIN call : call[o].op = "none"
    /\ IF devices = {}
       THEN /\ ctl' = [ctl EXCEPT !.pc = "stopped"]
            /\ event_subscribers' = [k \in {} |-> {}]
            /\ disp' = [d \in DOMAIN disp |-> [disp[d] EXCEPT !.live = FALSE]]
            /\ order' = order
            /\ UNCHANGED <<call, rd>>
       ELSE /\ \E n \in devices :
                 /\ ctl' = [ctl EXCEPT !.pc = "stopping", !.todo = devices, !.cur = n,
                                       !.stop_attempted = {n}]
                 /\ call' = [call EXCEPT ![n] = disconnect_call(n, "stop")]
                 /\ rd' = cancel_all(rd, n)
            /\ UNCHANGED busVars
    /\ out' = LifeStep("stop", "", NoRes)
    /\ UNCHANGED <<cfg, telnetVars, now, cache, hist, scen, evq, devices, polling_tasks, life>>

-----------------------------------------------------------------------------
(* The Telnet helper of a Vertex2 device (helpers/telnet.py) and           *)
(* Vertex2.send_command.  connection is Telnet._state: the socket (None or *)
(* a socket object) and the asyncio.Lock made for thread_safe=True, with   *)
(* its _locked flag and its queue of waiters.  commands.pc is where each    *)
(* task that calls send_command is: idle, ready (scheduled, not yet run),  *)
(* waiting (suspended in lock.acquire()), locked, connected, exchanged or  *)
(* failing (inside the session, before its finally clause), and returned   *)
(* or raised when send_command is over.  commands.ready is the queue of    *)
(* the event loop, which runs the tasks that are ready first in, first     *)
(* out.  Telnet.connect, send_message and disconnect are synchronous calls *)
(* on a blocking socket: the task that makes them keeps the event loop,    *)
(* and commands.running names it, until it suspends or ends; no other task *)
(* takes a step meanwhile.                                                 *)

(* the tasks that call send_command *)
Commanders == {<<"caller", i>> : i \in 1..MaxCommanders}

NoConnection == [socket |-> None, locked |-> FALSE, waiters |-> <<>>]

(* a socket.socket object *)
Socket == 1

NoCommands == [running |-> NoTask, ready |-> <<>>, pc |-> [t \in {} |-> "idle"]]

(* no Vertex2 device: nobody calls send_command *)
InitTelnet ==
    /\ connection = NoConnection
    /\ commands = NoCommands

TelnetStep(op, t, res) == Step(op, t, <<>>, res, FALSE, NoEvent)

InSession(t) == commands.pc[t] \in {"locked", "connected", "exchanged", "failing"}

(* what a step of send_command leaves alone *)
TelnetFrame == UNCHANGED <<cfg, now, cache, rd, hist, scen, evq, busVars, lifeVars>>

(* a task is made that will call send_command, as a request or a read does *)
SendCommand(t) ==
    /\ commands.running = NoTask
    /\ commands.pc[t] \in {"idle", "returned", "raised"}
    /\ commands' = [commands EXCEPT !.pc[t] = "ready", !.ready = Append(@, t)]
    /\ out' = TelnetStep("send_command", t, NoRes)
    /\ UNCHANGED connection
    /\ TelnetFrame

(* session(), lines 43-44: `await self._state.lock.acquire()`.  A free lock *)
(* with no waiter is taken without suspending; otherwise the task joins    *)
(* the waiters and suspends.                                               *)
SessionEnter(t) ==
    /\ commands.running = NoTask
    /\ commands.ready # <<>>
    /\ Head(commands.ready) = t
    /\ IF ~connection.locked /\ connection.waiters = <<>>
       THEN /\ connection' = [connection EXCEPT !.locked = TRUE]
            /\ commands' = [commands EXCEPT !.pc[t] = "locked", !.running = t,
                                            !.ready = Tail(@)]
       ELSE /\ connection' = [connection EXCEPT !.waiters = Append(@, t)]
            /\ commands' = [commands EXCEPT !.pc[t] = "waiting", !.ready = Tail(@)]
    /\ out' = TelnetStep("session", t, NoRes)
    /\ TelnetFrame

(* connect(), lines 54-67: RuntimeError when a socket is there; otherwise  *)
(* the socket object is stored and socket.connect returns or raises        *)
(* (OSError, or socket.timeout after the timeout of the device)            *)
TelnetConnect(t) ==
    /\ commands.running = t
    /\ commands.pc[t] = "locked"
    /\ IF connection.socket # None
       THEN /\ commands' = [commands EXCEPT !.pc[t] = "failing"]
            /\ out' = TelnetStep("connect", t,
                         Raised([class |-> "RuntimeError", raised_by |-> "Telnet.connect"]))
            /\ UNCHANGED connection
       ELSE /\ connection' = [connection EXCEPT !.socket = Socket]
            /\ \/ /\ commands' = [commands EXCEPT !.pc[t] = "connected"]
                  /\ out' = TelnetStep("connect", t, Returned(None))
               \/ \E e \in {"OSError", "TimeoutError"} :
                     /\ commands' = [commands EXCEPT !.pc[t] = "failing"]
                     /\ out' = TelnetStep("connect", t,
                                  Raised([class |-> e, raised_by |-> "socket.connect"]))
    /\ TelnetFrame

(* send_message(), lines 75-97, in the body of the session: the command is *)
(* sent and the response received, or the socket raises                    *)
SendMessage(t) ==
    /\ commands.running = t
    /\ commands.pc[t] = "connected"
    /\ \/ /\ commands' = [commands EXCEPT !.pc[t] = "exchanged"]
          /\ out' = TelnetStep("send_message", t, Returned(None))
       \/ \E e \in {"OSError", "TimeoutError"} :
             /\ commands' = [commands EXCEPT !.pc[t] = "failing"]
             /\ out' = TelnetStep("send_message", t,
                          Raised([class |-> e, raised_by |-> "socket.recv"]))
    /\ UNCHANGED connection
    /\ TelnetFrame

(* lock.release(): the lock is unlocked (and the future of the first       *)
(* waiter, if there is one, is set)                                        *)
release(c) == [c EXCEPT !.locked = FALSE]

(* a variant of SessionExit that releases the lock after the body of the   *)
(* session and not in a finally clause                                     *)
SessionExitNoFinally(t) ==
    /\ commands.running = t
    /\ commands.pc[t] \in {"exchanged", "failing"}
    /\ connection' = IF commands.pc[t] = "exchanged"
                     THEN release([connection EXCEPT !.socket = None])
                     ELSE connection
    /\ commands' = [commands EXCEPT
                       !.pc[t] = IF commands.pc[t] = "exchanged" THEN "returned" ELSE "raised",
                       !.running = NoTask]
    /\ out' = TelnetStep("session_exit", t,
                 IF commands.pc[t] = "exchanged"
                 THEN Returned(None)
                 ELSE Raised([class |-> "ConnectionError", raised_by |-> "send_command"]))
    /\ TelnetFrame

(* the finally clause of session(), lines 49-52: disconnect() closes the   *)
(* socket and forgets it, the lock is released; then send_command returns  *)
(* the response, or raises ConnectionError for whatever was raised in the  *)
(* session (vertex.py lines 39-47)                                         *)
SessionExit(t) ==
    /\ commands.running = t
    /\ commands.pc[t] \in {"exchanged", "failing"}
    /\ connection' = release([connection EXCEPT !.socket = None])
    /\ commands' = [commands EXCEPT
                       !.pc[t] = IF commands.pc[t] = "exchanged" THEN "returned" ELSE "raised",
                       !.running = NoTask]
    /\ out' = TelnetStep("session_exit", t,
                 IF commands.pc[t] = "exchanged"
                 THEN Returned(None)
                 ELSE Raised([class |-> "ConnectionError", raised_by |-> "send_command"]))
    /\ TelnetFrame

-----------------------------------------------------------------------------
(* time passes; a wait_for that is due fires before time goes on *)
Tick ==
    /\ now < MaxTime
    /\ \A t \in DOMAIN rd :
         (rd[t].pc = "await" /\ effective_timeout # None)
             => now - rd[t].current_time < effective_timeout
    /\ now' = now + 1
    /\ out' = Step("tick", NoTask, <<>>, NoRes, FALSE, NoEvent)
    /\ UNCHANGED <<cfg, telnetVars, cache, rd, evq, hist, scen, busVars, lifeVars>>

-----------------------------------------------------------------------------

(* Spec: the sensor engine.  One device d1 with one sensor vol, read and   *)
(* written by caller tasks under every configuration of Configs; nobody    *)
(* has subscribed.                                                         *)

SensorKeys == {<<"d1", "vol">>}

InitBus ==
    /\ event_subscribers = [k \in {} |-> {}]
    /\ disp = [d \in Dispatchers |-> NoDisp]
    /\ order = OrderOff

InitRegistry ==
    /\ devices = {}
    /\ ctl = NoCtl

Init ==
    /\ cfg \in Configs
    /\ now = 0
    /\ cache = [k \in SensorKeys |-> NoEntry]
    /\ rd = [t \in Tasks |-> Idle]
    /\ evq = <<>>
    /\ out = Step("init", NoTask, <<>>, NoRes, FALSE, NoEvent)
    /\ hist = [k \in SensorKeys |-> NoHistory]
    /\ scen = IF effective_ttl = 5 THEN ScenarioStart ELSE ScenarioOff
    /\ InitBus
    /\ InitTelnet
    /\ InitRegistry
    /\ call = [o \in {} |-> NoCall]
    /\ polling_tasks = [o \in {} |-> {}]
    /\ life = [o \in {} |-> "new"]

Next ==
    \/ \E t \in Tasks, k \in SensorKeys : ReadBegin(t, k)
    \/ \E t \in Tasks, v \in Values : ReadReturn(t, v)
    \/ \E t \in Tasks, e \in DriverExceptions : ReadRaise(t, e)
    \/ \E t \in Tasks : ReadTimeout(t)
    \/ \E k \in SensorKeys, v \in Values : Write(k, v)
    \/ RaiseEvent
    \/ Tick

Spec == Init /\ [][Next]_vars

(* SpecWrite: reads and writes of one sensor that has a setter, vol of the *)
(* device amp_a with the TTL of 0.5 s of its class, by two callers.        *)

WriteConfigs ==
    { [dttl |-> 5, dtimeout |-> None, sttl |-> None, stimeout |-> None, fset |-> TRUE] }

InitWrite ==
    /\ cfg \in WriteConfigs
    /\ now = 0
    /\ cache = [k \in WriteKeys |-> NoEntry]
    /\ rd = [t \in Tasks |-> Idle]
    /\ evq = <<>>
    /\ out = Step("init", NoTask, <<>>, NoRes, FALSE, NoEvent)
    /\ hist = [k \in WriteKeys |-> NoHistory]
    /\ scen = ScenarioOff
    /\ InitBus
    /\ InitTelnet
    /\ InitRegistry
    /\ call = [o \in {} |-> NoCall]
    /\ polling_tasks = [o \in {} |-> {}]
    /\ life = [o \in {} |-> "new"]

NextWrite ==
    \/ \E t \in Tasks, k \in WriteKeys : ReadBegin(t, k)
    \/ \E t \in Tasks, v \in Values : ReadReturn(t, v)
    \/ \E t \in Tasks, e \in DriverExceptions : ReadRaise(t, e)
    \/ \E k \in WriteKeys, v \in Values : Write(k, v)
    \/ RaiseEvent
    \/ Tick

SpecWrite == InitWrite /\ [][NextWrite]_vars

(* SpecRegistry: register_device on every kind of object, before start() *)

InitRegistryOnly ==
    /\ cfg = NoLimits
    /\ now = 0
    /\ cache = [k \in {} |-> NoEntry]
    /\ rd = [t \in {} |-> Idle]
    /\ evq = <<>>
    /\ out = Step("init", NoTask, <<>>, NoRes, FALSE, NoEvent)
    /\ hist = [k \in {} |-> NoHistory]
    /\ scen = ScenarioOff
    /\ InitBus
    /\ InitTelnet
    /\ InitRegistry
    /\ call = [o \in {} |-> NoCall]
    /\ polling_tasks = [o \in {} |-> {}]
    /\ life = [o \in {} |-> "new"]

NextRegistry == \E o \in DeviceObjects \cup {"misc"} : RegisterDevice(o)

SpecRegistry == InitRegistryOnly /\ [][NextRegistry]_vars

(* SpecLifecycle: the registry and the lifecycle.  The sensors are read by *)
(* the polling tasks only, with no ttl and no timeout; time stands still.  *)

LifeObjects == {"amp_a", "amp_b"}
LifeKeys == {<<o, name>> : o \in LifeObjects \cap Amps, name \in {"vol"}}

InitLifecycle ==
    /\ cfg = NoLimits
    /\ now = 0
    /\ cache = [k \in LifeKeys |-> NoEntry]
    /\ rd = [p \in Pollers |-> NoPoller]
    /\ evq = <<>>
    /\ out = Step("init", NoTask, <<>>, NoRes, FALSE, NoEvent)
    /\ hist = [k \in LifeKeys |-> NoHistory]
    /\ scen = ScenarioOff
    /\ InitBus
    /\ InitTelnet
    /\ InitRegistry
    /\ call = [o \in LifeObjects |-> NoCall]
    /\ polling_tasks = [o \in LifeObjects |-> {}]
    /\ life = [o \in LifeObjects |-> "new"]

NextLifecycle ==
    \/ \E o \in LifeObjects : RegisterDevice(o)
    \/ StartBegin
    \/ \E o \in LifeObjects : ConnectDirect(o)
    \/ \E o \in LifeObjects : ConnectReturn(o)
    \/ \E o \in LifeObjects : ConnectRaise(o)
    \/ \E o \in LifeObjects : DisconnectDirect(o)
    \/ \E p \in Pollers : PollerCancelled(p)
    \/ \E o \in LifeObjects : DisconnectGathered(o)
    \/ \E o \in LifeObjects : DisconnectReturn(o)
    \/ \E o \in LifeObjects : DisconnectRaise(o)
    \/ StopBegin
    \/ \E p \in Pollers, k \in LifeKeys : ReadBegin(p, k)
    \/ \E p \in Pollers, v \in Values : ReadReturn(p, v)
    \/ \E p \in Pollers, e \in DriverExceptions : ReadRaise(p, e)
    \/ RaiseEvent

SpecLifecycle == InitLifecycle /\ [][NextLifecycle]_vars

(* SpecService: the controller as the server's lifespan drives it: the     *)
(* devices are registered, start() connects them, their polling tasks read *)
(* and raise events that are dispatched to the callbacks subscribed to     *)
(* them, stop() disconnects them.  connect() and disconnect() are called   *)
(* by start() and stop() only, and the sensors keep their value.           *)

ServiceNames == {identifier(o) : o \in LifeObjects}
ServiceEvents == {"vol_changed"}
(* what the drivers report *)
ServiceValues == {10}

NextService ==
    \/ \E o \in LifeObjects : RegisterDevice(o)
    \/ \E n \in ServiceNames, e \in ServiceEvents, c \in Callbacks : Subscribe(n, e, c)
    \/ StartBegin
    \/ \E o \in LifeObjects : ConnectReturn(o)
    \/ \E o \in LifeObjects : ConnectRaise(o)
    \/ \E p \in Pollers : PollerCancelled(p)
    \/ \E o \in LifeObjects : DisconnectGathered(o)
    \/ \E o \in LifeObjects : DisconnectReturn(o)
    \/ \E o \in LifeObjects : DisconnectRaise(o)
    \/ StopBegin
    \/ \E p \in Pollers, k \in LifeKeys : ReadBegin(p, k)
    \/ \E p \in Pollers, v \in ServiceValues : ReadReturn(p, v)
    \/ \E p \in Pollers, e \in DriverExceptions : ReadRaise(p, e)
    \/ RaiseEvent
    \/ \E d \in Dispatchers : CallbackReturn(d)
    \/ \E d \in Dispatchers : CallbackRaise(d)

SpecService == InitLifecycle /\ [][NextService]_vars

(* SpecPolling: the polling loops.  As SpecService with one device and     *)
(* nobody subscribed, with or without a timeout of 2 ticks for the reads,  *)
(* and with time passing.  The event loop runs every task that is ready,   *)
(* so a polling task whose sleep is over begins its read and a raise_event *)
(* task that is queued runs; the read function of the driver is taken to   *)
(* finish, with a value or an exception, unless wait_for gives it up       *)
(* first.                                                                  *)

PollObjects == {"amp_a"}

PollingConfigs ==
    { NoLimits,
      [dttl |-> None, dtimeout |-> 2, sttl |-> None, stimeout |-> None, fset |-> TRUE] }

InitPolling ==
    /\ cfg \in PollingConfigs
    /\ now = 0
    /\ cache = [k \in LifeKeys |-> NoEntry]
    /\ rd = [p \in Pollers |-> NoPoller]
    /\ evq = <<>>
    /\ out = Step("init", NoTask, <<>>, NoRes, FALSE, NoEvent)
    /\ hist = [k \in LifeKeys |-> NoHistory]
    /\ scen = ScenarioOff
    /\ InitBus
    /\ InitTelnet
    /\ InitRegistry
    /\ call = [o \in LifeObjects |-> NoCall]
    /\ polling_tasks = [o \in LifeObjects |-> {}]
    /\ life = [o \in LifeObjects |-> "new"]

PollerBegins(p) == \E k \in LifeKeys : ReadBegin(p, k)

PollerReadEnds(p) ==
    \/ \E v \in ServiceValues : ReadReturn(p, v)
    \/ \E e \in DriverExceptions : ReadRaise(p, e)
    \/ ReadTimeout(p)

NextPolling ==
    \/ \E o \in PollObjects : RegisterDevice(o)
    \/ StartBegin
    \/ \E o \in PollObjects : ConnectReturn(o)
    \/ \E o \in PollObjects : ConnectRaise(o)
    \/ \E p \in Pollers : PollerCancelled(p)
    \/ \E o \in PollObjects : DisconnectGathered(o)
    \/ \E o \in PollObjects : DisconnectReturn(o)
    \/ \E o \in PollObjects : DisconnectRaise(o)
    \/ StopBegin
    \/ \E p \in Pollers : PollerBegins(p)
    \/ \E p \in Pollers : PollerReadEnds(p)
    \/ RaiseEvent
    \/ Tick

SpecPolling ==
    /\ InitPolling
    /\ [][NextPolling]_vars
    /\ \A p \in Pollers : WF_vars(PollerBegins(p))
    /\ \A p \in Pollers : WF_vars(PollerReadEnds(p))
    /\ WF_vars(RaiseEvent)

(* SpecCancel: SpecPolling, where the event loop also runs a polling task  *)
(* that has been cancelled: Task.cancel() schedules the task, which gets   *)
(* CancelledError at the await it is suspended in.                         *)

SpecCancel ==
    /\ SpecPolling
    /\ \A p \in Pollers : WF_vars(PollerCancelled(p))

(* SpecLookup: get_device at any moment of the controller's life, from     *)
(* registration through start() to after stop().                           *)

LookupObjects == {"tv", "amp_a", "amp_b"}
LookupIdentifiers == {"tv", "amp1", "d1"}

InitLookup ==
    /\ cfg = NoLimits
    /\ now = 0
    /\ cache = [k \in LifeKeys |-> NoEntry]
    /\ rd = [p \in Pollers |-> NoPoller]
    /\ evq = <<>>
    /\ out = Step("init", NoTask, <<>>, NoRes, FALSE, NoEvent)
    /\ hist = [k \in LifeKeys |-> NoHistory]
    /\ scen = ScenarioOff
    /\ InitBus
    /\ InitTelnet
    /\ InitRegistry
    /\ call = [o \in LookupObjects |-> NoCall]
    /\ polling_tasks = [o \in LookupObjects |-> {}]
    /\ life = [o \in LookupObjects |-> "new"]

NextLookup ==
    \/ \E o \in LookupObjects : RegisterDevice(o)
    \/ \E i \in LookupIdentifiers, T \in DeviceTypes \cup {NoType} : GetDevice(i, T)
    \/ StartBegin
    \/ \E o \in LookupObjects : ConnectReturn(o)
    \/ \E o \in LookupObjects : ConnectRaise(o)
    \/ \E p \in Pollers : PollerCancelled(p)
    \/ \E o \in LookupObjects : DisconnectGathered(o)
    \/ \E o \in LookupObjects : DisconnectReturn(o)
    \/ \E o \in LookupObjects : DisconnectRaise(o)
    \/ StopBegin

SpecLookup == InitLookup /\ [][NextLookup]_vars

(* SpecDelivery: from the sensor to the subscribers.  The sensor           *)
(* playstatus of the device tv is read by a caller, with or without a      *)
(* timeout; callbacks are subscribed to its change event; the listener of  *)
(* the device publishes play status updates under the same event name,     *)
(* with the text of the update as value, which is no value of the sensor.  *)

DeliveryTasks == {<<"caller", 1>>}
ListenerValues == {30}
DeliveryCallbacks == {"cb1"}

InitDelivery ==
    /\ cfg \in PollingConfigs
    /\ now = 0
    /\ cache = [k \in DeliveryKeys |-> NoEntry]
    /\ rd = [t \in DeliveryTasks |-> Idle]
    /\ evq = <<>>
    /\ out = Step("init", NoTask, <<>>, NoRes, FALSE, NoEvent)
    /\ hist = [k \in DeliveryKeys |-> NoHistory]
    /\ scen = ScenarioOff
    /\ InitBus
    /\ InitTelnet
    /\ InitRegistry
    /\ call = [o \in {} |-> NoCall]
    /\ polling_tasks = [o \in {} |-> {}]
    /\ life = [o \in {} |-> "new"]

NextDelivery ==
    \/ \E n \in DeviceNames, e \in EventNames, c \in DeliveryCallbacks : Subscribe(n, e, c)
    \/ \E t \in DeliveryTasks, k \in DeliveryKeys : ReadBegin(t, k)
    \/ \E t \in DeliveryTasks, v \in Values : ReadReturn(t, v)
    \/ \E t \in DeliveryTasks, e \in DriverExceptions : ReadRaise(t, e)
    \/ \E t \in DeliveryTasks : ReadTimeout(t)
    \/ Tick
    \/ \E o \in EventDevices, e \in EventNames, v \in ListenerValues : Publish(o, e, v)
    \/ RaiseEvent
    \/ \E d \in Dispatchers : CallbackReturn(d)
    \/ \E d \in Dispatchers : CallbackRaise(d)

SpecDelivery == InitDelivery /\ [][NextDelivery]_vars

(* SpecOrder: the changes of one sensor on their way to two subscribers.   *)
(* cb1 and cb2 are subscribed to the change event of playstatus of the     *)
(* device tv and stay subscribed; the controller is not stopped; a caller  *)
(* reads the sensor again and again with no TTL, so every read calls the   *)
(* underlying read function; the handle_event calls in progress are        *)
(* followed in the order in which they began.                              *)

OrderCallbacks == {"cb1", "cb2"}

InitOrder ==
    /\ cfg = NoLimits
    /\ now = 0
    /\ cache = [k \in DeliveryKeys |-> NoEntry]
    /\ rd = [t \in DeliveryTasks |-> Idle]
    /\ evq = <<>>
    /\ out = Step("init", NoTask, <<>>, NoRes, FALSE, NoEvent)
    /\ hist = [k \in DeliveryKeys |-> NoHistory]
    /\ scen = ScenarioOff
    /\ event_subscribers =
           [k \in {KeyOf("tv", "playstatus_changed")} |-> OrderCallbacks]
    /\ disp = [d \in Dispatchers |-> NoDisp]
    /\ order = OrderOn
    /\ InitTelnet
    /\ InitRegistry
    /\ call = [o \in {} |-> NoCall]
    /\ polling_tasks = [o \in {} |-> {}]
    /\ life = [o \in {} |-> "new"]

NextOrder ==
    \/ \E t \in DeliveryTasks, k \in DeliveryKeys : ReadBegin(t, k)
    \/ \E t \in DeliveryTasks, v \in Values : ReadReturn(t, v)
    \/ RaiseEvent
    \/ \E d \in Dispatchers : CallbackReturn(d)
    \/ \E d \in Dispatchers : CallbackRaise(d)

SpecOrder == InitOrder /\ [][NextOrder]_vars

(* SpecEventual: the changes of a sensor that is read and written, on a    *)
(* loop that runs every task that is ready, with callbacks that terminate, *)
(* by returning or by raising.  cb1 and cb2 are subscribed to the change   *)
(* event of mute of the device amp_a and stay subscribed; the controller   *)
(* is not stopped; a caller reads the sensor again and again with no TTL,  *)
(* and the sensor is written in between, so that the next read stores a    *)
(* change.                                                                 *)

EventualKeys == {<<"amp_a", "mute">>}

InitEventual ==
    /\ cfg = NoLimits
    /\ now = 0
    /\ cache = [k \in EventualKeys |-> NoEntry]
    /\ rd = [t \in DeliveryTasks |-> Idle]
    /\ evq = <<>>
    /\ out = Step("init", NoTask, <<>>, NoRes, FALSE, NoEvent)
    /\ hist = [k \in EventualKeys |-> NoHistory]
    /\ scen = ScenarioOff
    /\ event_subscribers =
           [k \in {KeyOf(identifier("amp_a"), "mute_changed")} |-> OrderCallbacks]
    /\ disp = [d \in Dispatchers |-> NoDisp]
    /\ order = OrderOff
    /\ InitTelnet
    /\ InitRegistry
    /\ call = [o \in {} |-> NoCall]
    /\ polling_tasks = [o \in {} |-> {}]
    /\ life = [o \in {} |-> "new"]

NextEventual ==
    \/ \E t \in DeliveryTasks, k \in EventualKeys : ReadBegin(t, k)
    \/ \E t \in DeliveryTasks, v \in ServiceValues : ReadReturn(t, v)
    \/ \E k \in EventualKeys, v \in ServiceValues : Write(k, v)
    \/ RaiseEvent
    \/ \E d \in Dispatchers : CallbackReturn(d)
    \/ \E d \in Dispatchers : CallbackRaise(d)

SpecEventual ==
    /\ InitEventual
    /\ [][NextEventual]_vars
    /\ WF_vars(RaiseEvent)
    /\ \A d \in Dispatchers : WF_vars(CallbackReturn(d) \/ CallbackRaise(d))

(* SpecEvents: the event bus.  A device's listener publishes events while  *)
(* callbacks are subscribed and unsubscribed.                              *)

InitEvents ==
    /\ cfg = NoLimits
    /\ now = 0
    /\ cache = [k \in {} |-> NoEntry]
    /\ rd = [t \in {} |-> Idle]
    /\ evq = <<>>
    /\ out = Step("init", NoTask, <<>>, NoRes, FALSE, NoEvent)
    /\ hist = [k \in {} |-> NoHistory]
    /\ scen = ScenarioOff
    /\ InitBus
    /\ InitTelnet
    /\ InitRegistry
    /\ call = [o \in {} |-> NoCall]
    /\ polling_tasks = [o \in {} |-> {}]
    /\ life = [o \in {} |-> "new"]

NextEvents ==
    \/ \E n \in DeviceNames, e \in EventNames, c \in Callbacks \cup {"fn"} :
          Subscribe(n, e, c)
    \/ \E n \in DeviceNames, e \in EventNames, c \in Callbacks : Unsubscribe(n, e, c)
    \/ \E o \in EventDevices, e \in EventNames, v \in Values : Publish(o, e, v)
    \/ RaiseEvent
    \/ \E d \in Dispatchers : CallbackReturn(d)
    \/ \E d \in Dispatchers : CallbackRaise(d)

SpecEvents == InitEvents /\ [][NextEvents]_vars

(* SpecFrame: reads and writes of three sensors, vol and mute of amp_a and *)
(* vol of amp_b, by one caller, while devices are registered and a         *)
(* callback is subscribed.  Time stands still: with the TTL of the class a *)
(* read finds an entry fresh until the sensor is written, and with a       *)
(* sensor timeout of 0 every read times out.                               *)

FrameKeys == {<<"amp_a", "vol">>, <<"amp_a", "mute">>, <<"amp_b", "vol">>}

FrameConfigs ==
    { [dttl |-> 5, dtimeout |-> None, sttl |-> None, stimeout |-> None, fset |-> TRUE],
      [dttl |-> 5, dtimeout |-> 2, sttl |-> None, stimeout |-> 0, fset |-> TRUE] }

InitFrame ==
    /\ cfg \in FrameConfigs
    /\ now = 0
    /\ cache = [k \in FrameKeys |-> NoEntry]
    /\ rd = [t \in DeliveryTasks |-> Idle]
    /\ evq = <<>>
    /\ out = Step("init", NoTask, <<>>, NoRes, FALSE, NoEvent)
    /\ hist = [k \in FrameKeys |-> NoHistory]
    /\ scen = ScenarioOff
    /\ InitBus
    /\ InitTelnet
    /\ InitRegistry
    /\ call = [o \in LifeObjects |-> NoCall]
    /\ polling_tasks = [o \in LifeObjects |-> {}]
    /\ life = [o \in LifeObjects |-> "new"]

NextFrame ==
    \/ \E o \in PollObjects : RegisterDevice(o)
    \/ \E n \in DeviceNames, e \in EventNames, c \in DeliveryCallbacks : Subscribe(n, e, c)
    \/ \E t \in DeliveryTasks, k \in FrameKeys : ReadBegin(t, k)
    \/ \E t \in DeliveryTasks, v \in Values : ReadReturn(t, v)
    \/ \E t \in DeliveryTasks, e \in DriverExceptions : ReadRaise(t, e)
    \/ \E t \in DeliveryTasks : ReadTimeout(t)
    \/ \E k \in FrameKeys, v \in ServiceValues : Write(k, v)
    \/ RaiseEvent

SpecFrame == InitFrame /\ [][NextFrame]_vars

(* SpecTelnet: the tasks of Commanders call send_command of one Vertex2    *)
(* device, again and again.  The event loop runs the task at the head of its queue, and  *)
(* the calls on the blocking socket return or raise: the socket has the    *)
(* timeout of the device.                                                  *)

InitTelnetCommands ==
    /\ cfg = NoLimits
    /\ now = 0
    /\ cache = [k \in {} |-> NoEntry]
    /\ rd = [t \in {} |-> Idle]
    /\ evq = <<>>
    /\ out = Step("init", NoTask, <<>>, NoRes, FALSE, NoEvent)
    /\ hist = [k \in {} |-> NoHistory]
    /\ scen = ScenarioOff
    /\ InitBus
    /\ InitRegistry
    /\ call = [o \in {} |-> NoCall]
    /\ polling_tasks = [o \in {} |-> {}]
    /\ life = [o \in {} |-> "new"]
    /\ connection = NoConnection
    /\ commands = [NoCommands EXCEPT !.pc = [t \in Commanders |-> "idle"]]

NextTelnet ==
    \/ \E t \in Commanders : SendCommand(t)
    \/ \E t \in Commanders : SessionEnter(t)
    \/ \E t \in Commanders : TelnetConnect(t)
    \/ \E t \in Commanders : SendMessage(t)
    \/ \E t \in Commanders : SessionExit(t)

SpecTelnet ==
    /\ InitTelnetCommands
    /\ [][NextTelnet]_vars
    /\ \A t \in Commanders : WF_vars(SessionEnter(t))
    /\ \A t \in Commanders : WF_vars(TelnetConnect(t))
    /\ \A t \in Commanders : WF_vars(SendMessage(t))
    /\ \A t \in Commanders : WF_vars(SessionExit(t))

(* SpecTable: the subscription table and everything that writes it:         *)
(* subscribe and unsubscribe on two keys, and stop() of a controller with   *)
(* no device, which clears the table.                                       *)

TableEvents == {"playstatus_changed", "power_state_changed"}

NextTable ==
    \/ \E n \in DeviceNames, e \in TableEvents, c \in Callbacks \cup {"fn"} :
          Subscribe(n, e, c)
    \/ \E n \in DeviceNames, e \in TableEvents, c \in Callbacks : Unsubscribe(n, e, c)
    \/ StartBegin
    \/ StopBegin

SpecTable == InitEvents /\ [][NextTable]_vars

-----------------------------------------------------------------------------
(* Properties of the sensor cache, under Spec, SpecWrite and SpecFrame *)

IsReadBegin(o) == o.op \in {"read_hit", "get_sensor_value"}

(* the entry of k is fresh at time t: its age is strictly less than the TTL *)
Fresh(k, t) ==
    /\ effective_ttl # None
    /\ cache[k] # NoEntry
    /\ t - cache[k][2] < effective_ttl

(* C1: a read that begins less than the TTL after an earlier read of the   *)
(* same sensor, which invoked the underlying read function and has         *)
(* returned its value, with no write in between, is served from the cache. *)
(* Stated with the reading that asks least of the code: the TTL is counted *)
(* from the moment the earlier read began (hist.okBegin), which is never   *)
(* later than the moment it returned.                                      *)
C1_TtlCorrectness ==
    [][ (IsReadBegin(out')
            /\ effective_ttl # None
            /\ hist[out'.key].okBegin # None
            /\ now - hist[out'.key].okBegin < effective_ttl)
        => (out'.op = "read_hit" /\ ~out'.driver) ]_vars

(* C2: while the underlying read function keeps returning the same value   *)
(* and nothing is written, at most one changed event is raised; and a read *)
(* whose value is new or differs from the cached one raises exactly one    *)
(* event, carrying that value, a read whose value equals the cached one    *)
(* raises none.                                                            *)
C2_ChangeOnlyEvents ==
    /\ [](\A k \in DOMAIN hist : hist[k].runEvents <= 1)
    /\ [][ out'.op = "read_ok" =>
             LET k == out'.key
                 v == out'.res.value
             IN  IF cache[k] = NoEntry \/ cache[k][1] # v
                 THEN /\ out'.ev = changed_event(k, v)
                      /\ evq' = Append(evq, changed_event(k, v))
                 ELSE /\ out'.ev = NoEvent
                      /\ evq' = evq ]_vars

(* a second and later read of an unchanged value has raised no event *)
C2_Witness ==
    /\ out.op = "read_ok"
    /\ out.ev = NoEvent
    /\ hist[out.key].runEvents = 1

C8_ExceptionPropagates ==
    [][ out'.op = "read_raise" =>
             /\ out'.res.kind = "raise"
             /\ out'.res.exc \in DriverExceptions
             /\ cache' = cache
             /\ out'.ev = NoEvent
             /\ evq' = evq ]_vars

(* C9: a successful write leaves no cache entry for the sensor, and the    *)
(* next read that begins invokes the underlying read function.             *)
C9_WriteInvalidates ==
    [][ /\ out'.op = "write" => cache'[out'.key] = NoEntry
        /\ (IsReadBegin(out') /\ hist[out'.key].freshWrite) => out'.driver ]_vars

(* C10: every step of the scenario of the specification does what it says *)
C10_Scenario == scen.ok

(* the scenario has been run to its end *)
C10_Witness == scen.stage = 6 /\ scen.ok

(* C11: a read that finds a fresh entry (its age strictly less than the    *)
(* effective TTL) returns the cached value, invokes no underlying read,    *)
(* raises no event and leaves the cache, value and timestamp, as it was.   *)
C11_CacheHit ==
    [][ (IsReadBegin(out') /\ Fresh(out'.key, now)) =>
             /\ out'.op = "read_hit"
             /\ out'.res = Returned(cache[out'.key][1])
             /\ ~out'.driver
             /\ out'.ev = NoEvent
             /\ evq' = evq
             /\ cache' = cache ]_vars

(* a hit some time after the entry was stored, the entry still as stored *)
C11_Witness ==
    /\ out.op = "read_hit"
    /\ cache[out.key] # NoEntry
    /\ out.res = Returned(cache[out.key][1])
    /\ now > cache[out.key][2]

(* another task awaits the underlying read function of instance_key k *)
InFlight(k, t) ==
    \E u \in DOMAIN rd : u # t /\ rd[u].pc = "await" /\ rd[u].key = k

(* C23: with a TTL configured, a read of a sensor that begins while another *)
(* read of the same sensor of the same device awaits the underlying read    *)
(* function does not invoke the underlying read function again.             *)
C23_ReadsSerialized ==
    [][ (IsReadBegin(out') /\ effective_ttl # None /\ InFlight(out'.key, out'.task))
            => ~out'.driver ]_vars

(* C30: a write is not masked by a read that was in flight: no read returns *)
(* from the cache a value that a read begun before the latest write of the  *)
(* sensor fetched from the driver.                                          *)
C30_WriteNotMasked ==
    [][ out'.op = "read_hit" => ~hist[out'.key].masked ]_vars

(* a step of a read or of a write of a sensor *)
IsSensorStep(o) ==
    o.op \in {"read_hit", "get_sensor_value", "read_ok", "read_raise", "read_timeout",
              "write", "write_raise", "not_writable"}

(* C28: a step of a read (a hit, the call of the driver, its return, its    *)
(* failure, its timeout) or of a write of sensor s of device d leaves the   *)
(* cache entry of every other sensor of d and of every sensor of every      *)
(* other device, the device set and the subscription table unchanged.       *)
C28_SensorFrame ==
    [][ IsSensorStep(out') =>
          /\ \A k \in DOMAIN cache : k # out'.key => cache'[k] = cache[k]
          /\ devices' = devices
          /\ event_subscribers' = event_subscribers ]_vars

(* a sensor has been written while the other sensors have entries, a device *)
(* is registered and a callback is subscribed                               *)
C28_Witness ==
    /\ out.op = "write"
    /\ cache[out.key] = NoEntry
    /\ \A k \in DOMAIN cache : k # out.key => cache[k] # NoEntry
    /\ \E k \in DOMAIN cache : k # out.key /\ k[1] = out.key[1]
    /\ devices # {}
    /\ event_subscribers # <<>>

(* ... and a read has timed out in such a state *)
C28_WitnessTimeout ==
    /\ out.op = "read_timeout"
    /\ devices # {}
    /\ event_subscribers # <<>>

(* ... and a read has stored its value next to the entries of the others *)
C28_WitnessRead ==
    /\ out.op = "read_ok"
    /\ \A k \in DOMAIN cache : cache[k] # NoEntry
    /\ devices # {}
    /\ event_subscribers # <<>>

(* the same sensor of the other instances of the device class *)
OtherInstances(k) == {k2 \in DOMAIN cache : k2[2] = k[2] /\ k2[1] # k[1]}

(* C34: the entries of the instances of a device class are kept apart: a   *)
(* read of an instance that returns from the cache returns the value of    *)
(* the entry of that instance, which is within its TTL; a read that stores *)
(* a value raises the change event exactly when that instance has no entry *)
(* or an entry with another value; a write deletes the entry of that       *)
(* instance and leaves the entries of the other instances as they are.     *)
C34_InstanceIsolation ==
    [][ /\ out'.op = "read_hit" =>
              /\ cache[out'.key] # NoEntry
              /\ out'.res.value = cache[out'.key][1]
              /\ effective_ttl # None
              /\ now - cache[out'.key][2] < effective_ttl
        /\ out'.op = "read_ok" =>
              /\ cache'[out'.key][1] = out'.res.value
              /\ out'.ev # NoEvent <=>
                     ( \/ cache[out'.key] = NoEntry
                       \/ cache[out'.key][1] # out'.res.value )
        /\ out'.op = "write" =>
              /\ cache'[out'.key] = NoEntry
              /\ \A k \in OtherInstances(out'.key) : cache'[k] = cache[k] ]_vars

(* a read of vol of amp_a has returned from the cache while amp_b holds    *)
(* another value of vol                                                    *)
C34_Witness ==
    /\ out.op = "read_hit"
    /\ out.key = <<"amp_a", "vol">>
    /\ cache[<<"amp_b", "vol">>] # NoEntry
    /\ cache[<<"amp_b", "vol">>][1] # out.res.value

(* ... a read of amp_a has stored the value that amp_b holds, with an event *)
C34_WitnessChange ==
    /\ out.op = "read_ok"
    /\ out.key = <<"amp_a", "vol">>
    /\ out.ev # NoEvent
    /\ cache[<<"amp_b", "vol">>] = cache[out.key]

(* ... and vol of amp_a has been written while amp_b holds an entry *)
C34_WitnessWrite ==
    /\ out.op = "write"
    /\ out.key = <<"amp_a", "vol">>
    /\ cache[<<"amp_b", "vol">>] # NoEntry

(* C31: the timestamp of the cache entry of a sensor never decreases while  *)
(* the entry exists: a read that began earlier does not overwrite the entry *)
(* stored by a read of the same sensor that began later.                    *)
C31_TimestampMonotonic ==
    [][ \A k \in DOMAIN cache :
          (cache[k] # NoEntry /\ cache'[k] # NoEntry) =>
              cache'[k][2] >= cache[k][2] ]_vars

(* the sensor-level value when given, 0 included, else the device default, *)
(* else none                                                               *)
SensorElseDevice(sensor_level, device_level) ==
    IF sensor_level # None THEN sensor_level ELSE device_level

C20_ReadOnlySensor ==
    [][ (out'.op \in {"write", "write_raise", "not_writable"} /\ ~cfg.fset) =>
             /\ out'.op = "not_writable"
             /\ out'.res.kind = "raise"
             /\ out'.res.exc.class = "AttributeError"
             /\ ~out'.driver
             /\ cache'[out'.key] = cache[out'.key] ]_vars

(* a write was refused while the sensor had a cache entry, which is kept *)
C20_Witness ==
    /\ ~cfg.fset
    /\ out.op = "not_writable"
    /\ cache[out.key] # NoEntry

-----------------------------------------------------------------------------
(* Properties of the registry, under SpecRegistry and SpecLookup *)

DuplicateError ==
    Raised([class |-> "ValueError", raised_by |-> "register_device: already registered"])

(* C3: no two registered devices have the same identifier, and             *)
(* register_device of a device object whose identifier is that of a        *)
(* registered device fails with the duplicate error and leaves the device  *)
(* set as it was.                                                          *)
C3_UniqueIdentifiers ==
    /\ [](\A a, b \in devices : identifier(a) = identifier(b) => a = b)
    /\ [][ (/\ out'.op = "register_device"
            /\ is_device(out'.device)
            /\ \E d \in devices : identifier(d) = identifier(out'.device))
           => (out'.res = DuplicateError /\ devices' = devices) ]_vars

(* the identifier matches ^[A-Za-z0-9_]+$ *)
MatchesPattern(str) ==
    /\ Chars(str) # <<>>
    /\ \A i \in 1..Len(Chars(str)) : Chars(str)[i] \in {"alnum", "underscore"}

InvalidIdentifierError ==
    Raised([class |-> "ValueError", raised_by |-> "register_device: invalid characters"])

(* C16: register_device of a device accepts the identifier exactly when it *)
(* is a non-empty string of ASCII letters, digits and underscores,         *)
(* identifiers of underscores only included; otherwise it fails with the   *)
(* error for an invalid identifier and leaves the device set as it was.    *)
C16_IdentifierValidation ==
    [][ (out'.op = "register_device" /\ is_device(out'.device)) =>
             IF MatchesPattern(identifier(out'.device))
             THEN out'.res # InvalidIdentifierError
                  /\ out'.res.exc.class # "AttributeError"
             ELSE out'.res = InvalidIdentifierError /\ devices' = devices ]_vars

(* C21: register_device is all-or-nothing and does nothing but the insert: *)
(* when it returns, the device was not in the set and the set has grown by  *)
(* exactly that device; when it raises, the set is as it was; either way no *)
(* connect() or disconnect() is called, no polling task is made, and the    *)
(* subscription table, the dispatches and the sensor cache are unchanged.   *)
C21_RegisterFrame ==
    [][ out'.op = "register_device" =>
          /\ out'.res.kind \in {"return", "raise"}
          /\ out'.res.kind = "return" =>
                (out'.device \notin devices /\ devices' = devices \cup {out'.device})
          /\ out'.res.kind = "raise" => devices' = devices
          /\ UNCHANGED <<call, life, polling_tasks, rd, evq,
                         event_subscribers, disp, cache, ctl>> ]_vars

(* a device is registered next to another, and a registration has failed   *)
(* with devices registered                                                  *)
C21_Witness ==
    /\ out.op = "register_device"
    /\ out.res.kind = "return"
    /\ Cardinality(devices) >= 2

C21_WitnessFailed ==
    /\ out.op = "register_device"
    /\ out.res.kind = "raise"
    /\ is_device(out.device)
    /\ devices # {}
    /\ out.device \notin devices

(* C19: get_device never changes the device set; what it returns is a     *)
(* registered device whose identifier is the argument, of the type asked   *)
(* for if one is given; it raises KeyError exactly when no registered      *)
(* device has the identifier, as after stop(); it raises TypeError only    *)
(* when a device with the identifier is not of the type asked for, and     *)
(* returns when every device with the identifier is of that type.          *)
C19_GetDevice ==
    [][ out'.op = "get_device" =>
          LET ident == out'.key[1]
              device_type == out'.key[2]
              found == {d \in devices : identifier(d) = ident}
              fits(d) == device_type = NoType \/ type_of(d) = device_type
                             \/ device_type = "DeviceProtocol"
          IN  /\ devices' = devices
              /\ out'.res.kind \in {"return", "raise"}
              /\ out'.res.kind = "return" =>
                    (out'.device \in found /\ fits(out'.device))
              /\ (out'.res.kind = "raise" /\ out'.res.exc.class = "KeyError")
                    <=> found = {}
              /\ (out'.res.kind = "raise" /\ out'.res.exc.class # "KeyError") =>
                    /\ out'.res.exc.class = "TypeError"
                    /\ \E d \in found : ~fits(d)
              /\ (found # {} /\ \A d \in found : fits(d)) =>
                    out'.res.kind = "return" ]_vars

(* after stop() the device that start() connected is not found any more *)
C19_Witness ==
    /\ ctl.pc = "stopped"
    /\ out.op = "get_device"
    /\ out.res.kind = "raise"
    /\ out.res.exc.class = "KeyError"
    /\ \E o \in DOMAIN life : identifier(o) = out.key[1] /\ life[o] = "disconnected"

(* a device was asked for with a type that is not its own *)
C19_WitnessType ==
    /\ out.op = "get_device"
    /\ out.res.kind = "raise"
    /\ out.res.exc.class = "TypeError"

-----------------------------------------------------------------------------
(* Properties of the lifecycle, under SpecLifecycle, SpecService,          *)
(* SpecPolling and SpecCancel                                              *)

(* the polling tasks of device o for its sensor name that are held in      *)
(* _polling_tasks and running                                              *)
RunningPollers(o, name) ==
    {p \in polling_tasks[o] : Live(p) /\ ~rd[p].cancel /\ rd[p].key = <<o, name>>}

StartReturns == ctl.pc \in {"init", "starting"} /\ ctl'.pc = "running"

(* C4: when start() returns it has not raised, connect() has been tried on *)
(* every registered device whichever of them failed, and every device      *)
(* whose connect() succeeded is connected, with one polling task running   *)
(* for each of its sensors that has a poll interval.                       *)
C4_FaultIsolation ==
    [][ StartReturns =>
          /\ ~ctl'.raised
          /\ ctl'.attempted = devices'
          /\ \A o \in ctl'.ok :
                /\ life'[o] = "connected"
                /\ \A name \in PolledSensors(o) :
                      Cardinality(RunningPollers(o, name)') = 1 ]_vars

(* start() has returned after amp_a connected and a later device failed *)
C4_Witness ==
    /\ ctl.pc = "running"
    /\ ctl.direct = 0
    /\ out.op = "connect_raise"
    /\ "amp_a" \in ctl.ok
    /\ ctl.attempted \ ctl.ok # {}
    /\ RunningPollers("amp_a", "vol") # {}

(* C5: once disconnect() of a device has returned, no polling task of the  *)
(* device is alive and handle_event is not invoked for the device again    *)
(* (until it is connected again).                                          *)
C5_PollerCancellation ==
    /\ [](\A o \in DOMAIN life :
            life[o] = "disconnected" =>
                \A p \in DOMAIN rd : ~(p \in Pollers /\ Live(p) /\ rd[p].key[1] = o))
    /\ [][ (out'.op = "handle_event" /\ out'.ev.device \in DOMAIN life)
           => life[out'.ev.device] # "disconnected" ]_vars

StopReturns == ctl.pc \in {"running", "stopping"} /\ ctl'.pc = "stopped"

(* C13: when stop() returns it has not raised, disconnect() has been       *)
(* called on every registered device whichever of them failed, and the     *)
(* device set and the subscription table are empty.                        *)
C13_StopTeardown ==
    [][ StopReturns =>
          /\ ~ctl'.raised
          /\ ctl'.stop_attempted = devices
          /\ devices' = {}
          /\ DOMAIN event_subscribers' = {} ]_vars

(* stop() has returned from a controller with two devices and a            *)
(* subscription, the disconnect() of the first device having raised        *)
C13_Witness ==
    /\ ctl.pc = "stopped"
    /\ Cardinality(ctl.stop_attempted) = 2
    /\ \E o \in DOMAIN life : o \in ctl.stop_attempted /\ life[o] = "connected"
    /\ \E o \in DOMAIN life : life[o] = "disconnected"
    /\ out.op = "disconnect_return"
    /\ devices = {}
    /\ DOMAIN event_subscribers = {}
    /\ \E d \in DOMAIN disp : disp[d].subs0 # {}

(* polling task p is running and has not been cancelled *)
Polling(p) == Live(p) /\ ~rd[p].cancel

(* C14: a polling task ends only when it has been cancelled: after a read  *)
(* that failed, by an exception of the driver or by a timeout, it sleeps   *)
(* the back-off delay and is ready to read again; and a polling task that  *)
(* is not cancelled begins reads again and again.                          *)
C14_PollingResilience ==
    /\ [][ \A p \in Pollers : (Live(p) /\ ~Live(p)') => rd[p].cancel ]_vars
    /\ [][ (out'.op \in {"read_raise", "read_timeout"} /\ out'.task \in Pollers) =>
             /\ rd'[out'.task].pc = "backoff"
             /\ ~rd'[out'.task].cancel
             /\ rd'[out'.task].key = out'.key ]_vars
    /\ \A p \in Pollers :
          []<>(~Polling(p) \/ (IsReadBegin(out) /\ out.task = p))

(* a read of a polling task has timed out: the task is alive, in its       *)
(* back-off sleep, and may begin its next read                              *)
C14_Witness ==
    /\ out.op = "read_timeout"
    /\ out.task \in Pollers
    /\ Polling(out.task)
    /\ rd[out.task].pc = "backoff"
    /\ ENABLED PollerBegins(out.task)

(* the polling tasks of device o for its sensor name that are alive, held in *)
(* _polling_tasks or not                                                     *)
LivePollers(o, name) ==
    {p \in DOMAIN rd : p \in Pollers /\ Live(p) /\ rd[p].key = <<o, name>>}

(* C24: at most one polling task is alive for each sensor with a poll       *)
(* interval of each device, and a polling task is alive only while its      *)
(* device is connected.                                                     *)
C24_OnePollerPerSensor ==
    \A o \in DOMAIN life : \A name \in PolledSensors(o) :
        /\ Cardinality(LivePollers(o, name)) <= 1
        /\ LivePollers(o, name) # {} => life[o] = "connected"

(* C25: when disconnect() of a device returns, the cache holds no entry for *)
(* any sensor of the device.                                                *)
C25_CacheEndsWithConnection ==
    [][ out'.op = "disconnect_return" =>
          \A k \in DOMAIN cache : k[1] = out'.device => cache'[k] = NoEntry ]_vars

(* a polling task that has been cancelled and has not yet got its           *)
(* CancelledError                                                           *)
CancelPending(p) == p \in DOMAIN rd /\ Live(p) /\ rd[p].cancel

(* C27: a polling task that is cancelled, wherever it is suspended, takes   *)
(* no step but the one that ends it, and that step comes; the step changes  *)
(* neither the cache nor raises an event, so a read cancelled while it      *)
(* awaits the driver stores nothing; and every cache entry is at all times  *)
(* either absent or a complete (value, timestamp) pair.                     *)
C27_CancellationEndsPoller ==
    /\ [][ \A p \in Pollers :
             CancelPending(p) =>
                \/ rd'[p] = rd[p]
                \/ /\ out'.op = "cancelled" /\ out'.task = p
                   /\ rd'[p].pc = "done" ]_vars
    /\ [][ out'.op = "cancelled" =>
             /\ cache' = cache
             /\ evq' = evq
             /\ out'.ev = NoEvent ]_vars
    /\ [](\A k \in DOMAIN cache :
             \/ cache[k] = NoEntry
             \/ /\ Len(cache[k]) = 2
                /\ cache[k][1] \in Values
                /\ cache[k][2] \in 0..now)
    /\ \A p \in Pollers : CancelPending(p) ~> ~Live(p)

(* a polling task has been ended by its cancellation with an entry of its   *)
(* sensor in the cache                                                      *)
C27_Witness ==
    /\ out.op = "cancelled"
    /\ rd[out.task].pc = "done"
    /\ cache[out.key] # NoEntry

(* a polling task is cancelled while it awaits the underlying read function *)
(* under wait_for, with an entry in the cache                               *)
C27_WitnessAwait ==
    \E p \in Pollers :
        /\ CancelPending(p)
        /\ rd[p].pc = "await"
        /\ effective_timeout # None
        /\ cache[rd[p].key] # NoEntry

(* ... and while it sleeps after an error *)
C27_WitnessBackoff ==
    \E p \in Pollers : CancelPending(p) /\ rd[p].pc = "backoff"

(* the step in which disconnect() of o gets to `await original_disconnect` *)
UnderlyingDisconnectInvoked(o) ==
    /\ call'[o].op = "disconnect" /\ call'[o].pc = "original"
    /\ ~(call[o].op = "disconnect" /\ call[o].pc = "original")

(* C26: when a disconnect() called by stop() invokes the underlying         *)
(* disconnect of a device, the polling tasks of every registered device     *)
(* have been cancelled and have finished: no polling task is alive.         *)
C26_StopCancelsAllFirst ==
    [][ \A o \in DOMAIN call :
          (UnderlyingDisconnectInvoked(o) /\ call'[o].by = "stop") =>
              \A p \in DOMAIN rd :
                  p \in Pollers =>
                      rd'[p].pc \notin {"poll", "await", "sleep", "backoff"} ]_vars

(* C12: when disconnect() of a device invokes the underlying disconnect of *)
(* the driver, every polling task of the device has been cancelled and has *)
(* finished: none of them is alive.                                        *)
C12_DisconnectOrdering ==
    [][ \A o \in DOMAIN call :
          UnderlyingDisconnectInvoked(o) =>
              \A p \in DOMAIN rd :
                  (p \in Pollers /\ rd'[p].pc \in {"poll", "await", "sleep", "backoff"})
                      => rd'[p].key[1] # o ]_vars

-----------------------------------------------------------------------------
(* Properties of the event bus, under SpecEvents, SpecTable and            *)
(* SpecDelivery                                                            *)

(* C6: handle_event invokes every callback that was subscribed to the key  *)
(* when it was called, each once, whichever of them raise, and returns     *)
(* without raising.                                                        *)
C6_SubscriberIsolation ==
    [][ /\ out'.op # "handle_event_raise"
        /\ out'.op = "handle_event_return"
              => disp[out'.task].visited = disp[out'.task].subs0 ]_vars

(* C32: a handle_event call during which callbacks are subscribed to or     *)
(* unsubscribed from its key does not raise, and when it is over every      *)
(* callback that was subscribed when it began and still is has been         *)
(* invoked.                                                                 *)
C32_DispatchToleratesChanges ==
    [][ out'.op \in {"handle_event_raise", "handle_event_return"} =>
          /\ out'.res.kind # "raise"
          /\ (disp[out'.task].subs0 \cap disp[out'.task].subs)
                 \subseteq disp[out'.task].visited ]_vars

(* the table with key mapped to subs, the key absent when subs is empty *)
TableWith(table, key, subs) ==
    [k \in (DOMAIN table \ {key}) \cup (IF subs = {} THEN {} ELSE {key}) |->
        IF k = key THEN subs ELSE table[k]]

(* C15: no key of the subscription table ever maps to the empty set; a     *)
(* subscribe that succeeds adds the callback to the set of its key and     *)
(* changes nothing when the callback is already there; an unsubscribe      *)
(* takes the callback out of the set of its key and removes the key when   *)
(* that was the last callback; no other key is touched.                    *)
C15_SubscriptionTable ==
    /\ [](\A k \in DOMAIN event_subscribers : event_subscribers[k] # {})
    /\ [][ (out'.op = "subscribe" /\ out'.res.kind = "return") =>
             LET key == KeyOf(out'.key[1], out'.key[2]) IN
             /\ event_subscribers' =
                    TableWith(event_subscribers, key,
                              subscribers_of(key) \cup {out'.callback})
             /\ out'.held => event_subscribers' = event_subscribers ]_vars
    /\ [][ out'.op = "unsubscribe" =>
             LET key == KeyOf(out'.key[1], out'.key[2]) IN
             /\ event_subscribers' =
                    TableWith(event_subscribers, key,
                              subscribers_of(key) \ {out'.callback})
             /\ subscribers_of(key) = {out'.callback} =>
                    key \notin DOMAIN event_subscribers' ]_vars
    /\ [][ out'.op \notin {"subscribe", "unsubscribe", "stop"} =>
             event_subscribers' = event_subscribers ]_vars

(* the last callback of the key has been unsubscribed and the key is gone *)
C15_Witness ==
    /\ out.op = "unsubscribe"
    /\ out.held
    /\ KeyOf(out.key[1], out.key[2]) \notin DOMAIN event_subscribers

(* a callback that was already subscribed has been subscribed again *)
C15_WitnessTwice ==
    /\ out.op = "subscribe"
    /\ out.res.kind = "return"
    /\ out.held

(* C22: subscribe with a callback that is not a coroutine function raises   *)
(* ValueError and leaves the subscription table as it was, with no key made *)
(* for it; with a coroutine function it returns.                            *)
C22_SubscribeRejectsPlainFunction ==
    [][ out'.op = "subscribe" =>
          IF iscoroutinefunction(out'.callback)
          THEN out'.res.kind = "return"
          ELSE /\ out'.res = Raised([class |-> "ValueError", raised_by |-> "subscribe"])
               /\ event_subscribers' = event_subscribers
               /\ DOMAIN event_subscribers' = DOMAIN event_subscribers
               /\ disp' = disp ]_vars

(* a plain function has been refused for a key that has no subscriber, with *)
(* another key in the table                                                 *)
C22_Witness ==
    /\ out.op = "subscribe"
    /\ out.callback = "fn"
    /\ out.res.kind = "raise"
    /\ KeyOf(out.key[1], out.key[2]) \notin DOMAIN event_subscribers
    /\ event_subscribers # <<>>

(* a step that invokes a subscriber's callback with the value of out.ev *)
Delivers(o) == o.op \in {"handle_event", "callback"} /\ o.callback # ""

(* C17: every value with which a callback subscribed to the change event   *)
(* of a sensor is invoked is a value that the underlying read function of  *)
(* that sensor of that device has returned; and a read that fails or times *)
(* out raises no event and leaves the dispatches as they are.              *)
C17_OnlyReadValuesDelivered ==
    /\ [][ Delivers(out') =>
             \A k \in DOMAIN hist :
                 (out'.ev.device = k[1] /\ out'.ev.event_name = k[2] \o "_changed")
                     => out'.ev.value \in hist'[k].returned ]_vars
    /\ [][ out'.op \in {"read_raise", "read_timeout"} =>
             (out'.ev = NoEvent /\ evq' = evq /\ disp' = disp) ]_vars

-----------------------------------------------------------------------------
(* in seq, the handle_event calls in progress, d1 began before d2 *)
BeganBefore(seq, d1, d2) ==
    \E i, j \in DOMAIN seq : i < j /\ seq[i] = d1 /\ seq[j] = d2

(* C33: each subscriber receives the changes of a sensor in the order in   *)
(* which they were stored: when a callback is invoked with the value of a  *)
(* change, every handle_event call in progress for an earlier change of    *)
(* that sensor has already invoked that callback.  It is stated for calls  *)
(* whose iterations over the subscribers run in the same order.            *)
C33_DeliveryOrder ==
    [][ Delivers(out') =>
          \A d1 \in DOMAIN disp :
              ( /\ BeganBefore(order'.seq, d1, out'.task)
                /\ disp[d1].key = disp'[out'.task].key
                /\ disp[d1].visited \subseteq disp[out'.task].visited )
                  => out'.callback \in disp[d1].visited ]_vars

(* a step of a handle_event call *)
IsDispatchStep(o) ==
    o.op \in {"handle_event", "callback", "handle_event_return", "handle_event_raise"}

(* C35: change events are delivered asynchronously and eventually.  A read *)
(* that stores a change returns its value in the step that makes the task  *)
(* of the event, before any callback is invoked for it; the steps of the   *)
(* handle_event calls, with callbacks that raise or stay suspended, leave  *)
(* the reads and the cache alone and no handle_event call raises; and with *)
(* the subscriptions unchanged, the controller not stopped and callbacks   *)
(* that terminate, the task of every event runs and begins a handle_event *)
(* call, and every handle_event call returns, having invoked every        *)
(* callback subscribed to the key with the event.                         *)
C35_EventualDelivery ==
    /\ [][ (out'.op = "read_ok" /\ out'.ev # NoEvent) =>
              /\ out'.res.kind = "return"
              /\ out'.ev.value = out'.res.value
              /\ evq' = Append(evq, out'.ev)
              /\ disp' = disp ]_vars
    /\ [][ IsDispatchStep(out') =>
              /\ rd' = rd
              /\ cache' = cache
              /\ out'.op # "handle_event_raise"
              /\ out'.op = "handle_event_return" =>
                    disp[out'.task].visited = subscribers_of(disp[out'.task].key) ]_vars
    /\ \A v \in ServiceValues :
          (evq # <<>> /\ Head(evq).value = v)
              ~> (out.op = "handle_event" /\ out.ev.value = v /\ out.callback # "")
    /\ \A d \in Dispatchers :
          (disp[d].pc = "callback")
              ~> (out.op = "handle_event_return" /\ out.task = d)

(* a handle_event call has invoked the second callback after the first one *)
(* raised, while the caller is in its next read                            *)
C35_Witness ==
    /\ out.op = "callback"
    /\ disp[out.task].raised # {}
    /\ disp[out.task].visited = OrderCallbacks
    /\ \E t \in DOMAIN rd : rd[t].pc = "await"

(* ... and a read has stored a change and returned while the callbacks of  *)
(* two earlier changes are suspended                                       *)
C35_WitnessRead ==
    /\ out.op = "read_ok"
    /\ out.ev # NoEvent
    /\ \A d \in Dispatchers : disp[d].pc = "callback"

(* Properties of the Telnet connection, under SpecTelnet *)

(* C29: over all tasks that call send_command of a Vertex2 device, at most   *)
(* one session is open at any time; the socket exists only inside a session  *)
(* and the lock is held exactly while a session is open, so it is released   *)
(* on every exit of a session, also when connect() or the exchange raised;   *)
(* a task enters its session only when the lock is free and the socket of    *)
(* the session before it is closed; and every task that has called           *)
(* send_command gets to the end of it.                                       *)
C29_TelnetSessions ==
    /\ [](Cardinality({t \in DOMAIN commands.pc : InSession(t)}) <= 1)
    /\ [](connection.socket # None => connection.locked)
    /\ [](connection.locked <=> \E t \in DOMAIN commands.pc : InSession(t))
    /\ [][ out'.op = "session_exit" =>
             /\ ~connection'.locked
             /\ connection'.socket = None ]_vars
    /\ [][ (out'.op = "session" /\ commands'.pc[out'.task] = "locked") =>
             /\ ~connection.locked
             /\ connection.socket = None ]_vars
    /\ \A t \in Commanders :
          (commands.pc[t] \in {"ready", "waiting"})
              ~> (commands.pc[t] \in {"returned", "raised"})

(* a session has ended with an exception raised in it, the lock is free and *)
(* another task is ready to call                                            *)
C29_Witness ==
    /\ out.op = "session_exit"
    /\ out.res.kind = "raise"
    /\ ~connection.locked
    /\ commands.ready # <<>>

(* a session is open, after a session that ended with an exception, while   *)
(* another task is ready                                                    *)
C29_WitnessOpen ==
    \E t, u, w \in Commanders :
       /\ commands.pc[t] = "connected"
       /\ commands.pc[u] = "raised"
       /\ commands.pc[w] = "ready"

=============================================================================
